---- MODULE Spec2Model ----
(***************************************************************************)
(* Model of the shared useAvatarUpload hook (uploadAvatar, removeAvatar,   *)
(* reset) running against the Supabase storage client, and of four         *)
(* smaller units: the SocialLoginButton component, the ProfileScreen       *)
(* route protection, the CloudFront PR path router and the module-level    *)
(* configureGoogleSignIn.  Each unit has its own variables and its own     *)
(* specification; the other units stay as they were constructed.           *)
(*                                                                         *)
(* Strings whose contents matter (paths, URLs, the cache-busting token)    *)
(* are sequences of one-character strings; error messages are sequences    *)
(* of the pieces the template literal concatenates.  The empty sequence    *)
(* stands for JavaScript null.                                             *)
(***************************************************************************)
EXTENDS Integers, Sequences, FiniteSets, TLC

\* ------------------------------------------------------------------ bounds
MaxCalls == 2          \* hook calls started in one run, one at a time
MaxOverlapCalls == 2   \* hook calls started in one run when calls may overlap
MaxClock == 10         \* largest value Date.now() returns
MaxFracDigits == 7     \* most base-36 fraction digits Math.random().toString(36) prints
MaxPresses == 4        \* press events delivered to one SocialLoginButton
MaxAuthChanges == 5    \* changes of the auth context one ProfileScreen sees
MaxRestLen == 4        \* characters appended to a request URI's head
MaxConfigureCalls == 3 \* calls of configureGoogleSignIn in one run
MaxAuthCalls == 2      \* useAuth functions called in one run, one at a time
MaxAuthEvents == 1     \* onAuthStateChange callbacks in one run
MaxGoogleSignIns == 1  \* signInWithGoogle calls in one run
MaxSignInConfigures == 2 \* configureGoogleSignIn calls in a run with signInWithGoogle
MaxUserChanges == 3    \* changes of the user prop one useProfile sees
MaxFetches == 3        \* fetchProfile calls one useProfile makes
MaxRetries == 3        \* largest SUPABASE_MAX_RETRIES a supabase_run call is run with
MaxBytes == 4          \* bytes in a picked image file

\* --------------------------------------------------------------- constants
MAX_FILE_SIZE == 2 * 1024 * 1024
ALLOWED_MIME_TYPES == {"image/jpeg", "image/png", "image/webp"}
BUCKET_NAME == <<"a", "v", "a", "t", "a", "r", "s">>
ListLimit == 10
RandomSubstringStart == 7

Null == <<>>

\* ------------------------------------------------------------ input domains
Slots == {1, 2}
UserIds == {<<"u", "1">>}
\* Declared MIME types: three allowed ones, one foreign one, and "" for an
\* empty or missing type (both are falsy in `type || 'image/jpeg'`).
MimeTypes == {"image/jpeg", "image/png", "image/webp", "application/pdf", ""}
FileSizes == {MAX_FILE_SIZE, MAX_FILE_SIZE + 1}
FileKinds == {"File", "Blob", "ArrayBuffer"}
Files == [kind : FileKinds, type : MimeTypes, size : FileSizes]
NoFile == [kind |-> "none", type |-> "", size |-> 0]
StorageErrorMessages == {"Bucket not found"}
\* inputs of the runs in which calls overlap
OverlapFiles == {f \in Files : f.kind = "File" /\ f.size = MAX_FILE_SIZE /\ f.type \in {"image/jpeg", "application/pdf"}}
Base36Digits == {"i"}
\* Date.now() is read as an input: nothing in the hook orders two readings
ClockValues == (MaxClock - 1)..MaxClock
Base36Alphabet == {"0", "1", "2", "3", "4", "5", "6", "7", "8", "9", "a", "b", "c", "d", "e", "f", "g", "h", "i", "j", "k", "l", "m", "n", "o", "p", "q", "r", "s", "t", "u", "v", "w", "x", "y", "z"}
DecimalDigits == <<"0", "1", "2", "3", "4", "5", "6", "7", "8", "9">>

\* ------------------------------------------------------------ string helpers
StartsWith(s, p) == Len(s) >= Len(p) /\ SubSeq(s, 1, Len(p)) = p

ContainsAt(s, p, i) == i + Len(p) - 1 <= Len(s) /\ SubSeq(s, i, i + Len(p) - 1) = p

\* String.prototype.includes / the storage search filter
Includes(s, p) == \E i \in 1..(Len(s) + 1) : ContainsAt(s, p, i)

\* String.prototype.substring(start) for 0 <= start
Substring(s, start) == SubSeq(s, start + 1, Len(s))

RECURSIVE NumberToString(_)
NumberToString(n) ==
    IF n < 10 THEN <<DecimalDigits[n + 1]>>
    ELSE NumberToString(n \div 10) \o <<DecimalDigits[(n % 10) + 1]>>

RECURSIVE SeqsUpTo(_, _)
SeqsUpTo(S, n) ==
    IF n = 0 THEN {<<>>}
    ELSE LET shorter == SeqsUpTo(S, n - 1)
         IN shorter \cup {Append(q, d) : q \in {r \in shorter : Len(r) = n - 1}, d \in S}

\* Math.random().toString(36): "0" for 0, otherwise "0." and the fraction digits
RandomFractions == SeqsUpTo(Base36Digits, MaxFracDigits)
RandomToString36(frac) == IF frac = <<>> THEN <<"0">> ELSE <<"0", ".">> \o frac

RECURSIVE SetToSeq(_)
SetToSeq(S) ==
    IF S = {} THEN <<>>
    ELSE LET x == CHOOSE y \in S : TRUE IN <<x>> \o SetToSeq(S \ {x})

SeqToSet(s) == {s[i] : i \in 1..Len(s)}
Min(a, b) == IF a < b THEN a ELSE b

\* ------------------------------------------------------------------- state
VARIABLES
    userId,        \* the hook's userId argument
    uploading,     \* useState(false)
    progress,      \* useState(0)
    error,         \* useState<Error | null>(null): the error's message, or Null
    uploadedUrl,   \* useState<string | null>(null)
    objects,       \* paths of the objects the avatars bucket holds
    calls,         \* per slot: the hook call running (or last run) there
    started,       \* number of hook calls started
    returned,      \* the URL uploadAvatar last resolved with and its file's type (a one-element sequence), or <<>>
    button,        \* one mounted SocialLoginButton: its props, state and what it has called
    screen,        \* one mounted ProfileScreen: the auth context it reads, its timer, its navigation calls
    router,        \* one viewer-request event of the PR path router and the request handler returns
    google,        \* the module-level state of configureGoogleSignIn and its pending work
    useAuth,       \* one mounted useAuth hook, its running call and the client's auth storage
    useProfile,    \* one mounted useProfile hook: its user prop, its state and its fetches
    supabaseRun,   \* one supabase_run call of the preview-database script
    script,        \* one run of the preview-database script's main
    picker         \* one image handed to the native AvatarUpload's base64 decoder

vars == <<userId, uploading, progress, error, uploadedUrl, objects, calls, started, returned,
          button, screen, router, google, useAuth, useProfile, supabaseRun, script, picker>>

hookVars == <<userId, uploading, progress, error, uploadedUrl, objects, calls, started, returned>>

\* the variables of the units other than the avatar hook
units == <<button, screen, router, google, useAuth, useProfile, supabaseRun, script, picker>>

\* what the actions of one unit leave alone
otherThanButton == <<hookVars, screen, router, google, useAuth, useProfile, supabaseRun, script, picker>>
otherThanScreen == <<hookVars, button, router, google, useAuth, useProfile, supabaseRun, script, picker>>
otherThanRouter == <<hookVars, button, screen, google, useAuth, useProfile, supabaseRun, script, picker>>
otherThanGoogle == <<hookVars, button, screen, router, useAuth, useProfile, supabaseRun, script, picker>>
otherThanUseAuth == <<hookVars, button, screen, router, google, useProfile, supabaseRun, script, picker>>
otherThanUseProfile == <<hookVars, button, screen, router, google, useAuth, supabaseRun, script, picker>>
otherThanSupabaseRun == <<hookVars, button, screen, router, google, useAuth, useProfile, script, picker>>
otherThanScript == <<hookVars, button, screen, router, google, useAuth, useProfile, supabaseRun, picker>>
otherThanPicker == <<hookVars, button, screen, router, google, useAuth, useProfile, supabaseRun, script>>

Hook == <<uploading, progress, error, uploadedUrl>>
DefaultHook == <<FALSE, 0, Null, Null>>

\* ------------------------------------------------------ storage-call records
NoOpts == [upsert |-> FALSE, contentType |-> "", limit |-> 0, search |-> <<>>]
UploadOpts(ct) == [upsert |-> TRUE, contentType |-> ct, limit |-> 0, search |-> <<>>]
ListOpts == [upsert |-> FALSE, contentType |-> "", limit |-> ListLimit, search |-> <<"a", "v", "a", "t", "a", "r">>]

\* a storage call being issued, and its promise settling
Issued(op, paths, opts) == [ev |-> "call", op |-> op, paths |-> paths, opts |-> opts, res |-> "", msg |-> ""]
Settled(op, paths, res, msg) == [ev |-> "settle", op |-> op, paths |-> paths, opts |-> NoOpts, res |-> res, msg |-> msg]

IdleCall == [op |-> "none", pc |-> "idle", file |-> NoFile, filePath |-> Null, contentType |-> "",
             log |-> <<>>, outcome |-> "none", value |-> Null, overlapped |-> FALSE]

InFlight(c) == c.pc # "idle"

\* ------------------------------------------------------------ pure helpers
SizeMessage == <<"File size must be less than ">> \o NumberToString((MAX_FILE_SIZE \div 1024) \div 1024) \o <<"MB">>
TypeMessage == <<"File must be a ", "JPEG, PNG, or WebP", " image">>

validateFile_SizeUnchecked(file) ==
    IF file.kind = "File" /\ file.type \notin ALLOWED_MIME_TYPES THEN TypeMessage ELSE Null

validateFile_TypeUnchecked(file) ==
    IF file.size > MAX_FILE_SIZE THEN SizeMessage ELSE Null

\* validateFile: the message of the Error it throws, or Null when it returns
validateFile(file) ==
    IF file.size > MAX_FILE_SIZE THEN SizeMessage
    ELSE IF file.kind = "File" /\ file.type \notin ALLOWED_MIME_TYPES THEN TypeMessage
    ELSE Null

\* the mimeToExt record lookup; Null for a key it does not have (undefined)
mimeToExt(type) ==
    CASE type = "image/jpeg" -> <<"j", "p", "g">>
      [] type = "image/png"  -> <<"p", "n", "g">>
      [] type = "image/webp" -> <<"w", "e", "b", "p">>
      [] OTHER -> Null

getFileExtension_AlwaysJpg(file) == <<"j", "p", "g">>

getFileExtension(file) ==
    IF file.kind = "File"
    THEN IF mimeToExt(file.type) # Null THEN mimeToExt(file.type) ELSE <<"j", "p", "g">>
    ELSE IF file.type # "" /\ mimeToExt(file.type) # Null THEN mimeToExt(file.type)
    ELSE <<"j", "p", "g">>

ValidationOf_EveryInput(file) == validateFile(file)

\* the input branch of uploadAvatar: only a File or Blob goes through validateFile
ValidationOf(file) == IF file.kind = "ArrayBuffer" THEN Null ELSE validateFile(file)

\* contentType chosen by uploadAvatar's two input branches
ContentTypeOf(file) ==
    IF file.kind = "ArrayBuffer" THEN (IF file.type # "" THEN file.type ELSE "image/jpeg")
    ELSE IF file.kind = "File" THEN file.type
    ELSE (IF file.type # "" THEN file.type ELSE "image/jpeg")

ExtensionOf(file) ==
    IF file.kind = "ArrayBuffer"
    THEN IF mimeToExt(ContentTypeOf(file)) # Null THEN mimeToExt(ContentTypeOf(file)) ELSE <<"j", "p", "g">>
    ELSE getFileExtension(file)

\* `${userId}/${name}`
UserPath(uid, name) == uid \o <<"/">> \o name

\* `${userId}/avatar.${extension}`
FilePath(uid, extension) == UserPath(uid, <<"a", "v", "a", "t", "a", "r", ".">> \o extension)

CommonPaths(uid) == <<FilePath(uid, <<"j", "p", "g">>), FilePath(uid, <<"p", "n", "g">>), FilePath(uid, <<"w", "e", "b", "p">>)>>

\* storage.from(BUCKET_NAME).getPublicUrl(path).data.publicUrl
getPublicUrl(path) == <<"h", "/">> \o BUCKET_NAME \o <<"/">> \o path

\* `${publicUrl}?t=${Date.now()}&v=${Math.random().toString(36).substring(7)}`
CacheBustedUrl(publicUrl, now, frac) ==
    publicUrl \o <<"?", "t", "=">> \o NumberToString(now) \o <<"&", "v", "=">>
              \o Substring(RandomToString36(frac), RandomSubstringStart)

\* storage.list(folder, {limit, search}): names of the folder's objects that contain the search term
ListNames(objs, folder, opts) ==
    LET names == {Substring(p, Len(folder) + 1) : p \in {q \in objs : StartsWith(q, folder \o <<"/">>)}}
        found == SetToSeq({n \in names : Includes(n, opts.search)})
    IN SubSeq(found, 1, Min(Len(found), opts.limit))

MapPaths(uid, names) == [i \in 1..Len(names) |-> UserPath(uid, names[i])]

\* ------------------------------------------------------------------- Init
\* ------------------------------------------------------ SocialLoginButton
Providers == {"google", "apple"}
OAuthErrors == {"OAuth failed", "cancelled"}

\* The component after its first render.  isLoading is the useState value,
\* disabled the prop the rendered TouchableOpacity carries, onPress the state
\* of the promise the running onPress call returned, handlePress the state of
\* the promise the last handlePress call returned, warnings what console.warn
\* was called with.
ButtonOf(provider) ==
    [provider |-> provider, isLoading |-> FALSE, disabled |-> FALSE, onPress |-> "none",
     onPressCalls |-> 0, presses |-> 0, warnings |-> <<>>, handlePress |-> "none"]

\* ----------------------------------------------------------- ProfileScreen
NoUser == "null"
AuthUsers == {"user-1", "user-2"}
AuthStates == [loading : BOOLEAN, user : {NoUser} \cup AuthUsers]
TimerDelay == 100
TickMs == 25
NoTimer == -1

\* what ProfileScreen returns for an auth context
render(auth) ==
    IF auth.loading THEN "Loading..."
    ELSE IF auth.user = NoUser THEN "Redirecting..."
    ELSE "ProfileScreenContent"

routeProtection_NoCleanup(auth, timer) ==
    IF ~auth.loading /\ auth.user = NoUser THEN TimerDelay ELSE timer

\* The route-protection effect run for a new [auth.loading, auth.user]: the
\* previous run's cleanup clears its timer, then a timer of 100 ms is set when
\* nobody is signed in.  The value is the milliseconds left, or NoTimer.
routeProtection(auth, timer) ==
    IF ~auth.loading /\ auth.user = NoUser THEN TimerDelay ELSE NoTimer

\* the screen after its first render and effect; replaced lists the routes
\* navigation.replace was called with
ScreenOf(auth) ==
    [auth |-> auth, view |-> render(auth), timer |-> routeProtection(auth, NoTimer),
     replaced |-> <<>>, changes |-> 0]

\* ------------------------------------------------------------ PRPathRouter
PREVIEW_PREFIX == <<"p", "r", "-">>
IndexHtml == <<"i", "n", "d", "e", "x", ".", "h", "t", "m", "l">>
DigitChars == {DecimalDigits[i] : i \in 1..10}
LetterChars == {"a", "b", "c", "d", "e", "f", "g", "h", "i", "j", "k", "l", "m", "n", "o", "p", "q", "r", "s", "t", "u", "v", "w", "x", "y", "z",
                "A", "B", "C", "D", "E", "F", "G", "H", "I", "J", "K", "L", "M", "N", "O", "P", "Q", "R", "S", "T", "U", "V", "W", "X", "Y", "Z"}
\* the class [a-z0-9] under the i flag
ExtensionChars == LetterChars \cup DigitChars

\* request URIs: a head followed by up to MaxRestLen characters
UriHeads == {<<>>, <<"/">>, <<"/", "p", "r", "-">>, <<"/", "p", "r", "-", "7">>, <<"/", "p", "r", "-", "7", "/">>,
             <<"/", "p", "r", "-", "7", "x">>,
             <<"/", "a", "/", "p", "r", "-", "7">>, <<"p", "r", "-", "7">>}
UriChars == {"/", ".", "J", "1", "-"}
Uris == {h \o t : h \in UriHeads, t \in SeqsUpTo(UriChars, MaxRestLen)}

\* number of digits at the start of s
RECURSIVE DigitRun(_)
DigitRun(s) == IF s # <<>> /\ Head(s) \in DigitChars THEN 1 + DigitRun(Tail(s)) ELSE 0

\* replace(/^\/+/, '')
RECURSIVE StripLeadingSlashes(_)
StripLeadingSlashes(s) == IF s # <<>> /\ Head(s) = "/" THEN StripLeadingSlashes(Tail(s)) ELSE s

\* the second alternative of replace(/^\/+|\/+$/g, '')
RECURSIVE StripTrailingSlashes(_)
StripTrailingSlashes(s) ==
    IF s # <<>> /\ s[Len(s)] = "/" THEN StripTrailingSlashes(SubSeq(s, 1, Len(s) - 1)) ELSE s

NoMatch == [matched |-> FALSE, prPrefix |-> <<>>, restOfPath |-> <<>>]

\* uri.match(new RegExp('^/(' + previewPrefixBase + '\\d+)(/.*)?$')): group 1
\* and group 2 (the empty sequence when the group takes no part).  The URIs
\* have no line terminators, so . matches each of their characters.
prPathPattern(uri) ==
    LET head == <<"/">> \o PREVIEW_PREFIX
        n == IF StartsWith(uri, head) THEN DigitRun(Substring(uri, Len(head))) ELSE 0
        end == Len(head) + n
    IN IF n > 0 /\ (end = Len(uri) \/ uri[end + 1] = "/")
       THEN [matched |-> TRUE, prPrefix |-> SubSeq(uri, 2, end), restOfPath |-> Substring(uri, end)]
       ELSE NoMatch

isFilePath_AnySlashes(path) ==
    LET trimmed == StripTrailingSlashes(path)
    IN \E k \in 1..(Len(trimmed) - 1) :
          trimmed[k] = "." /\ \A i \in (k + 1)..Len(trimmed) : trimmed[i] \in ExtensionChars

\* one trailing slash removed, then /\.[a-z0-9]+$/i
isFilePath(path) ==
    LET trimmed == IF path # <<>> /\ path[Len(path)] = "/" THEN SubSeq(path, 1, Len(path) - 1) ELSE path
    IN \E k \in 1..(Len(trimmed) - 1) :
          trimmed[k] = "." /\ \A i \in (k + 1)..Len(trimmed) : trimmed[i] \in ExtensionChars

rewritePath(prPrefix, restOfPath) ==
    LET sanitizedPrefix == StripTrailingSlashes(StripLeadingSlashes(prPrefix))
        sanitizedPath == StripLeadingSlashes(IF restOfPath = <<>> THEN <<"/">> ELSE restOfPath)
    IN IF sanitizedPath = <<>> \/ sanitizedPath = <<"/">> THEN sanitizedPrefix \o <<"/">> \o IndexHtml
       ELSE IF ~isFilePath(sanitizedPath) THEN sanitizedPrefix \o <<"/">> \o IndexHtml
       ELSE sanitizedPrefix \o <<"/">> \o sanitizedPath

\* the uri of the request handler returns for a request of this uri
handlerUri(requestUri) ==
    LET uri == IF requestUri = <<>> THEN <<"/">> ELSE requestUri
        match == prPathPattern(uri)
    IN IF match.matched THEN <<"/">> \o rewritePath(match.prPrefix, match.restOfPath)
       ELSE requestUri

\* an event whose request has not been handled yet
RouterOf(uri) == [event |-> uri, request |-> uri, returned |-> FALSE]

\* ------------------------------------------------- configureGoogleSignIn
\* "" stands for an option that is missing (or empty: both are falsy)
GoogleOptions == [webClientId : {"", "web-id"}, iosClientId : {"", "ios-id"}]
NoOptions == [webClientId |-> "", iosClientId |-> ""]
NoPromise == 0           \* configurePromise = null
FreshResolved == -1      \* the new promise Promise.resolve() makes
ImportOutcomes == {"configured", "configureThrows", "importFails"}

\* The module after it is loaded.  promises[i] is the state of the i-th
\* promise configureGoogleSignIn created, jobs[i] the stage of the deferred
\* work that settles it ("timer", "import", "done", "failed") with the options
\* it captured, configureCalls the configs GoogleSignin.configure was called
\* with and whether it threw.
GoogleModule ==
    [isConfigured |-> FALSE, configurePromise |-> NoPromise, promises |-> <<>>, jobs |-> <<>>,
     imports |-> 0, configureCalls |-> <<>>, calls |-> 0, lastOptions |-> NoOptions,
     lastReturned |-> NoPromise, warnings |-> 0]

\* what GoogleSignin.configure receives for these options
ConfigOf(options) ==
    [webClientId |-> options.webClientId, iosClientId |-> options.iosClientId, offlineAccess |-> TRUE]

\* ------------------------------------------------------------------ useAuth
NoSession == "null"
Sessions == {NoSession, "user-1"}
\* session?.user ?? null
UserOf(session) == IF session = NoSession THEN NoUser ELSE session
AuthErrorMessages == {"Invalid login credentials"}

\* keys of the client's auth storage, as the pieces the two tests look at
SbPrefix == "sb-"
TokenInfix == "supabase.auth.token"
StorageKeys == {<<SbPrefix, "ref-auth-token">>, <<"x.", TokenInfix, ".y">>, <<"my-", SbPrefix, "theme">>}
NoStorage == {<<"no storage">>}

\* key.startsWith('sb-') || key.includes('supabase.auth.token')
IsSupabaseKey_PrefixAnywhere(key) ==
    \E i \in 1..Len(key) : key[i] = SbPrefix \/ key[i] = TokenInfix

IsSupabaseKey(key) ==
    key[1] = SbPrefix \/ \E i \in 1..Len(key) : key[i] = TokenInfix

\* getAuthStorage(client) # null: whether the client has a storage adapter
\* with getAllKeys and removeItem
getAuthStorage(storage) == storage # NoStorage

NoAuthCall == [op |-> "none", pc |-> "idle", api |-> "none", outcome |-> "none", value |-> Null,
               waiting |-> 0, sdk |-> <<>>, removing |-> {}]

\* The hook after its first render: user, session, loading and error are the
\* useState values, GoogleSignin whether getGoogleSignIn has the module, call
\* the hook function running (or last run), storage the keys the auth storage
\* holds, warnings and events counters of Logger.warn calls and of listener
\* callbacks.  In a call, api is how the auth API call ended, sdk lists the
\* Google SDK calls made with the value isConfigured had at each.
UseAuthOf(storage) ==
    [user |-> NoUser, session |-> NoSession, loading |-> TRUE, error |-> Null,
     GoogleSignin |-> FALSE, call |-> NoAuthCall, calls |-> 0, storage |-> storage,
     warnings |-> 0, events |-> 0, sessionLoaded |-> FALSE]

UseAuthIdle == UseAuthOf(NoStorage)

\* --------------------------------------------------------------- useProfile
ProfileErrorMessages == {"permission denied"}
NoProfile == [user_id |-> "null"]
\* the row .eq('user_id', userId).single() returns
ProfileOf(uid) == [user_id |-> uid]
\* how the select ends: a row, no row (error code PGRST116), another
\* backend error, or a rejected promise
SelectOutcomes == {"data", "PGRST116", "error", "throws"}

\* a fetchProfile(userId) call up to its await
FetchOf(uid) == [userId |-> uid, pc |-> "select", api |-> "none", outcome |-> "none", value |-> Null]

\* The hook after its first render and effect for a user prop: with a user
\* the effect has called fetchProfile(user.id), without one it has set
\* profile = null and loading = false.  fetches lists the fetchProfile calls.
UseProfileOf(user) ==
    [user |-> user, profile |-> NoProfile, loading |-> (user # NoUser), error |-> Null,
     fetches |-> IF user # NoUser THEN <<FetchOf(user)>> ELSE <<>>, changes |-> 0]

UseProfileIdle == UseProfileOf(NoUser)

\* ------------------------------------------------------------- supabase_run
\* a shell parameter is <<>> when unset or empty and <<v>> when it holds v;
\* ${parameter:-word} is the parameter's value unless it is unset or empty
ParamDefault(parameter, word) == IF parameter = <<>> THEN word ELSE parameter[1]

\* the values SUPABASE_MAX_RETRIES is run with
MaxRetriesEnv == {<<>>} \cup {<<n>> : n \in 0..MaxRetries}
ExitCodes == {0, 1, 2}
\* what a command writes, as the pieces that matter to the grep of its output
CommandOutputs ==
    {<<"Finished ", "supabase db push.">>,
     <<"failed to connect", " to postgres">>,
     <<"Cannot find project ref", ". Have you run supabase link?">>,
     <<"Error:", " relation does not exist">>,
     <<"0 ", "errors">>}
ToLower(piece) ==
    CASE piece = "Cannot find project ref" -> "cannot find project ref"
      [] piece = "Error:" -> "error:"
      [] OTHER -> piece
\* grep -qiE "failed to connect|cannot find project ref|Error:"
grepErrors(output) ==
    \E i \in 1..Len(output) :
        ToLower(output[i]) \in {"failed to connect", "cannot find project ref", "error:"}

\* status after one invocation that ended with exit code exit and wrote output
statusOf(exit, output) ==
    IF grepErrors(output) THEN ParamDefault(<<exit>>, 1) ELSE exit

lastAttempt_OneMore(attempt, max_attempts) == attempt > max_attempts
lastAttempt(attempt, max_attempts) == attempt >= max_attempts

\* One supabase_run call: pc is where it is ("idle" before the call, "loop"
\* at the top of the while loop, "returned" after a return), invocations
\* lists the exit code and output of every time the command ran, sleeps the
\* delays slept, returns the value returned.
SupabaseRunIdle ==
    [pc |-> "idle", allow_fail |-> 0, DRY_RUN |-> FALSE, max_attempts |-> 0, attempt |-> 0,
     delay |-> 0, status |-> 0, invocations |-> <<>>, sleeps |-> <<>>, returns |-> 0,
     SUPABASE_MAX_RETRIES |-> <<>>]

\* ------------------------------------------------- preview-database script
\* what one supabase_run call returns to its caller: failed says that the
\* command did not reach status 0 within the attempts
supabase_runReturns(allow_fail, dry, failed) ==
    IF dry THEN 0
    ELSE IF ~failed THEN 0
    ELSE IF allow_fail # 0 THEN 0
    ELSE 1

\* how checkout_baseline ends: return 1, SUPABASE_HAS_CHANGES=false, or the
\* runtime directory synced
CheckoutOutcomes == {"unresolved", "unchanged", "synced"}

\* the entry of one supabase_run call in the run's list of commands
CommandOf(command, allow_fail, dry, failed) ==
    [command |-> command, ran |-> ~dry, failed |-> (~dry /\ failed),
     status |-> supabase_runReturns(allow_fail, dry, failed)]

\* One run of the script: the flags parse_args leaves, SUPABASE_HAS_CHANGES
\* and main's db_success, pc the step main is at, commands the supabase_run
\* calls made, outputs the SUPABASE_SUCCESS values written, exit the exit
\* status (<<>> while running).
ScriptOf(dry, skip, types, seed, seedFile) ==
    [pc |-> "main", DRY_RUN |-> dry, SKIP_IF_UNCHANGED |-> skip, GENERATE_TYPES |-> types,
     RUN_SEED |-> seed, seedFile |-> seedFile, SUPABASE_HAS_CHANGES |-> TRUE,
     db_success |-> FALSE, commands |-> <<>>, outputs |-> <<>>, exit |-> <<>>]

ScriptIdle == ScriptOf(FALSE, FALSE, TRUE, TRUE, TRUE)

\* ------------------------------------------------- AvatarUpload (native)
\* the byte values files are made of, and the files picked
ByteValues == {0, 1, 15, 85, 170, 240, 254, 255}
RECURSIVE FilesOfLen(_)
FilesOfLen(n) ==
    IF n = 0 THEN {<<>>}
    ELSE {Append(f, b) : f \in FilesOfLen(n - 1), b \in ByteValues}
ImageFiles == UNION {FilesOfLen(n) : n \in 0..MaxBytes}

\* a | b and a & b on non-negative integers
RECURSIVE BitOr(_, _)
BitOr(a, b) ==
    IF a = 0 THEN b
    ELSE IF b = 0 THEN a
    ELSE (IF a % 2 = 1 \/ b % 2 = 1 THEN 1 ELSE 0) + 2 * BitOr(a \div 2, b \div 2)
RECURSIVE BitAnd(_, _)
BitAnd(a, b) ==
    IF a = 0 \/ b = 0 THEN 0
    ELSE (IF a % 2 = 1 /\ b % 2 = 1 THEN 1 ELSE 0) + 2 * BitAnd(a \div 2, b \div 2)

base64Chars ==
    <<"A", "B", "C", "D", "E", "F", "G", "H", "I", "J", "K", "L", "M",
      "N", "O", "P", "Q", "R", "S", "T", "U", "V", "W", "X", "Y", "Z",
      "a", "b", "c", "d", "e", "f", "g", "h", "i", "j", "k", "l", "m",
      "n", "o", "p", "q", "r", "s", "t", "u", "v", "w", "x", "y", "z",
      "0", "1", "2", "3", "4", "5", "6", "7", "8", "9", "+", "/", "=">>

\* base64Chars.indexOf(c), with c = "" for a charAt past the end
indexOf(c) ==
    IF c = "" THEN 0
    ELSE IF \E i \in 1..Len(base64Chars) : base64Chars[i] = c
    THEN (CHOOSE i \in 1..Len(base64Chars) : base64Chars[i] = c) - 1
    ELSE -1

charAt(str, i) == IF i + 1 \in 1..Len(str) THEN str[i + 1] ELSE ""

\* FileSystem.readAsStringAsync(uri, {encoding: Base64}): the standard padded
\* base64 text of the file's bytes
RECURSIVE readAsBase64(_)
readAsBase64(bytes) ==
    IF Len(bytes) = 0 THEN <<>>
    ELSE LET b1 == bytes[1]
             b2 == IF Len(bytes) >= 2 THEN bytes[2] ELSE 0
             b3 == IF Len(bytes) >= 3 THEN bytes[3] ELSE 0
             c1 == base64Chars[(b1 \div 4) + 1]
             c2 == base64Chars[((b1 % 4) * 16 + (b2 \div 16)) + 1]
             c3 == IF Len(bytes) >= 2 THEN base64Chars[((b2 % 16) * 4 + (b3 \div 64)) + 1] ELSE "="
             c4 == IF Len(bytes) >= 3 THEN base64Chars[(b3 % 64) + 1] ELSE "="
         IN <<c1, c2, c3, c4>> \o
            (IF Len(bytes) > 3 THEN readAsBase64(SubSeq(bytes, 4, Len(bytes))) ELSE <<>>)

\* base64.replace(/[^A-Za-z0-9+/=]/g, '')
IsBase64Char(c) == \E i \in 1..Len(base64Chars) : base64Chars[i] = c
cleanBase64(base64) == SelectSeq(base64, IsBase64Char)

isPadding_Never(enc) == FALSE
isPadding(enc) == enc = 64

\* the bytes one pass of the for loop pushes, for the four characters at i
decodeGroup(clean, i) ==
    LET enc1 == indexOf(charAt(clean, i))
        enc2 == indexOf(charAt(clean, i + 1))
        enc3 == indexOf(charAt(clean, i + 2))
        enc4 == indexOf(charAt(clean, i + 3))
        byte1 == BitOr(enc1 * 4, enc2 \div 16)
        byte2 == BitOr(BitAnd(enc2, 15) * 16, enc3 \div 4)
        byte3 == BitOr(BitAnd(enc3, 3) * 64, enc4)
    IN <<byte1>> \o (IF ~isPadding(enc3) THEN <<byte2>> ELSE <<>>)
                 \o (IF ~isPadding(enc4) THEN <<byte3>> ELSE <<>>)

\* the for loop from index i: const bytes: number[]
RECURSIVE decodeFrom(_, _)
decodeFrom(clean, i) ==
    IF i < Len(clean) THEN decodeGroup(clean, i) \o decodeFrom(clean, i + 4) ELSE <<>>

\* new Uint8Array(bytes)
Uint8ArrayOf(bytes) == [i \in 1..Len(bytes) |-> bytes[i] % 256]

\* One handlePickImage call for a picked file: pc is "idle" before it,
\* "read" at the await of readAsStringAsync, then "decoded" or "thrown".
PickerOf(file) ==
    [pc |-> "idle", file |-> file, base64 |-> <<>>, uint8Array |-> <<>>, thrown |-> ""]

PickerIdle == PickerOf(<<>>)

\* ------------------------------------------------------------- construction
InitHook ==
    /\ userId \in UserIds
    /\ uploading = FALSE
    /\ progress = 0
    /\ error = Null
    /\ uploadedUrl = Null
    /\ objects = {}
    /\ calls = [s \in Slots |-> IdleCall]
    /\ started = 0
    /\ returned = <<>>

Init ==
    /\ InitHook
    /\ button = ButtonOf("google")
    /\ screen = ScreenOf([loading |-> TRUE, user |-> NoUser])
    /\ router = RouterOf(<<"/">>)
    /\ google = GoogleModule
    /\ useAuth = UseAuthIdle
    /\ useProfile = UseProfileIdle
    /\ supabaseRun = SupabaseRunIdle
    /\ script = ScriptIdle
    /\ picker = PickerIdle

\* the slot's call replaced by c; every other call in flight has now been overlapped
StartIn(s, c) ==
    [t \in Slots |->
        IF t = s THEN [c EXCEPT !.overlapped = \E o \in Slots \ {s} : InFlight(calls[o])]
        ELSE IF InFlight(calls[t]) THEN [calls[t] EXCEPT !.overlapped = TRUE]
        ELSE calls[t]]

\* ---------------------------------------------------------------- actions
\* uploadAvatar up to its first await: the four setters, the input branch,
\* validation (a throw runs catch and finally at once), the remove call
uploadAvatar(s, file, limit) ==
    /\ ~InFlight(calls[s])
    /\ started < limit
    /\ started' = started + 1
    /\ LET verr == ValidationOf(file)
           contentType == ContentTypeOf(file)
           filePath == FilePath(userId, ExtensionOf(file))
           base == [IdleCall EXCEPT !.op = "uploadAvatar", !.file = file]
       IN IF verr # Null
          THEN /\ uploading' = FALSE
               /\ progress' = 0
               /\ error' = verr
               /\ uploadedUrl' = Null
               /\ calls' = StartIn(s, [base EXCEPT !.outcome = "rejected", !.value = verr])
          ELSE /\ uploading' = TRUE
               /\ progress' = 0
               /\ error' = Null
               /\ uploadedUrl' = Null
               /\ calls' = StartIn(s, [base EXCEPT !.pc = "removeOld", !.filePath = filePath,
                                                   !.contentType = contentType,
                                                   !.log = <<Issued("remove", <<filePath>>, NoOpts)>>])
    /\ UNCHANGED <<userId, objects, returned>>

uploadAvatarAfterRemove_ThrowAborts(s, res, msg) ==
    /\ calls[s].pc = "removeOld"
    /\ objects' = IF res = "ok" THEN objects \ {calls[s].filePath} ELSE objects
    /\ IF res = "throws"
       THEN /\ calls' = [calls EXCEPT ![s].pc = "idle", ![s].outcome = "rejected", ![s].value = <<msg>>,
                                      ![s].log = @ \o <<Settled("remove", <<calls[s].filePath>>, res, msg)>>]
            /\ uploading' = FALSE
            /\ error' = <<msg>>
       ELSE /\ calls' = [calls EXCEPT ![s].pc = "upload",
                                      ![s].log = @ \o <<Settled("remove", <<calls[s].filePath>>, res, msg),
                                                        Issued("upload", <<calls[s].filePath>>, UploadOpts(calls[s].contentType))>>]
            /\ UNCHANGED <<uploading, error>>
    /\ UNCHANGED <<userId, progress, uploadedUrl, started, returned>>

\* the remove of the old avatar settles (its outcome is ignored) and the upload is issued
uploadAvatarAfterRemove(s, res, msg) ==
    /\ calls[s].pc = "removeOld"
    /\ objects' = IF res = "ok" THEN objects \ {calls[s].filePath} ELSE objects
    /\ calls' = [calls EXCEPT ![s].pc = "upload",
                              ![s].log = @ \o <<Settled("remove", <<calls[s].filePath>>, res, msg),
                                                Issued("upload", <<calls[s].filePath>>, UploadOpts(calls[s].contentType))>>]
    /\ UNCHANGED <<userId, uploading, progress, error, uploadedUrl, started, returned>>

UploadFailure_Generic(res, msg) ==
    CASE res = "error" -> <<"Upload failed">>
      [] res = "nodata" -> <<"Upload succeeded but returned no data">>
      [] OTHER -> <<msg>>

\* the message of the Error the catch block receives after the upload settled without data
UploadFailure(res, msg) ==
    CASE res = "error" -> <<"Upload failed: ", msg>>
      [] res = "nodata" -> <<"Upload succeeded but returned no data">>
      [] OTHER -> <<msg>>

uploadAvatarAfterUpload_NoFinally(s, res, msg, now, frac) ==
    /\ calls[s].pc = "upload"
    /\ LET path == calls[s].filePath
           settle == Settled("upload", <<path>>, res, msg)
           failure == UploadFailure(res, msg)
           url == CacheBustedUrl(getPublicUrl(path), now, frac)
       IN IF res = "ok"
          THEN /\ objects' = objects \cup {path}
               /\ uploadedUrl' = url
               /\ error' = error
               /\ calls' = [calls EXCEPT ![s].pc = "idle", ![s].outcome = "resolved", ![s].value = url,
                                         ![s].log = @ \o <<settle, Issued("getPublicUrl", <<path>>, NoOpts)>>]
               /\ returned' = <<[type |-> calls[s].file.type, url |-> url]>>
          ELSE /\ objects' = objects
               /\ uploadedUrl' = uploadedUrl
               /\ error' = failure
               /\ calls' = [calls EXCEPT ![s].pc = "idle", ![s].outcome = "rejected", ![s].value = failure,
                                         ![s].log = @ \o <<settle>>]
               /\ returned' = returned
    /\ uploading' = uploading
    /\ progress' = IF res = "ok" THEN 100 ELSE progress
    /\ UNCHANGED <<userId, started>>
\* the upload settles: error / no data / throw run catch and finally, success builds the URL
uploadAvatarAfterUpload(s, res, msg, now, frac) ==
    /\ calls[s].pc = "upload"
    /\ LET path == calls[s].filePath
           settle == Settled("upload", <<path>>, res, msg)
           failure == UploadFailure(res, msg)
           url == CacheBustedUrl(getPublicUrl(path), now, frac)
       IN IF res = "ok"
          THEN /\ objects' = objects \cup {path}
               /\ uploadedUrl' = url
               /\ error' = error
               /\ calls' = [calls EXCEPT ![s].pc = "idle", ![s].outcome = "resolved", ![s].value = url,
                                         ![s].log = @ \o <<settle, Issued("getPublicUrl", <<path>>, NoOpts)>>]
               /\ returned' = <<[type |-> calls[s].file.type, url |-> url]>>
          ELSE /\ objects' = objects
               /\ uploadedUrl' = uploadedUrl
               /\ error' = failure
               /\ calls' = [calls EXCEPT ![s].pc = "idle", ![s].outcome = "rejected", ![s].value = failure,
                                         ![s].log = @ \o <<settle>>]
               /\ returned' = returned
    /\ uploading' = FALSE
    /\ progress' = 0
    /\ UNCHANGED <<userId, started>>
removeAvatar_KeepsError(s, limit) ==
    /\ ~InFlight(calls[s])
    /\ started < limit
    /\ started' = started + 1
    /\ calls' = StartIn(s, [IdleCall EXCEPT !.op = "removeAvatar", !.pc = "list",
                                            !.log = <<Issued("list", <<userId>>, ListOpts)>>])
    /\ UNCHANGED <<userId, uploading, progress, error, uploadedUrl, objects, returned>>

\* removeAvatar up to its first await: setError(null) and the list call
removeAvatar(s, limit) ==
    /\ ~InFlight(calls[s])
    /\ started < limit
    /\ started' = started + 1
    /\ error' = Null
    /\ calls' = StartIn(s, [IdleCall EXCEPT !.op = "removeAvatar", !.pc = "list",
                                            !.log = <<Issued("list", <<userId>>, ListOpts)>>])
    /\ UNCHANGED <<userId, uploading, progress, uploadedUrl, objects, returned>>

\* the list settles: on a list error the common paths are removed, on files
\* found they are removed, on no files the URL is cleared, a throw is caught
removeAvatarAfterList(s, res, msg) ==
    /\ calls[s].pc = "list"
    /\ LET files == IF res = "ok" THEN ListNames(objects, userId, ListOpts) ELSE <<>>
           settle == Settled("list", files, res, msg)
       IN CASE res = "error" ->
                 /\ calls' = [calls EXCEPT ![s].pc = "removeCommon",
                                ![s].log = @ \o <<settle, Issued("remove", CommonPaths(userId), NoOpts)>>]
                 /\ UNCHANGED <<error, uploadedUrl>>
            [] res = "throws" ->
                 /\ calls' = [calls EXCEPT ![s].pc = "idle", ![s].outcome = "rejected", ![s].value = <<msg>>,
                                ![s].log = @ \o <<settle>>]
                 /\ error' = <<msg>>
                 /\ UNCHANGED uploadedUrl
            [] res = "ok" /\ Len(files) > 0 ->
                 /\ calls' = [calls EXCEPT ![s].pc = "removeListed",
                                ![s].log = @ \o <<settle, Issued("remove", MapPaths(userId, files), NoOpts)>>]
                 /\ UNCHANGED <<error, uploadedUrl>>
            [] OTHER ->
                 /\ calls' = [calls EXCEPT ![s].pc = "idle", ![s].outcome = "resolved", ![s].log = @ \o <<settle>>]
                 /\ uploadedUrl' = Null
                 /\ UNCHANGED error
    /\ UNCHANGED <<userId, uploading, progress, objects, started, returned>>

LastIssued(c) == c.log[Len(c.log)]

DeleteFailure_Generic(res, msg) == IF res = "error" THEN <<"Failed to delete avatar">> ELSE <<msg>>

\* the message of the Error removeAvatar's catch block receives after the remove failed
DeleteFailure(res, msg) == IF res = "error" THEN <<"Failed to delete avatar: ", msg>> ELSE <<msg>>

\* the remove of the listed files settles
removeAvatarAfterDelete(s, res, msg) ==
    /\ calls[s].pc = "removeListed"
    /\ LET paths == LastIssued(calls[s]).paths
           settle == Settled("remove", paths, res, msg)
           failure == DeleteFailure(res, msg)
       IN IF res = "ok"
          THEN /\ objects' = objects \ SeqToSet(paths)
               /\ uploadedUrl' = Null
               /\ error' = error
               /\ calls' = [calls EXCEPT ![s].pc = "idle", ![s].outcome = "resolved", ![s].log = @ \o <<settle>>]
          ELSE /\ objects' = objects
               /\ uploadedUrl' = uploadedUrl
               /\ error' = failure
               /\ calls' = [calls EXCEPT ![s].pc = "idle", ![s].outcome = "rejected", ![s].value = failure,
                                         ![s].log = @ \o <<settle>>]
    /\ UNCHANGED <<userId, uploading, progress, started, returned>>

\* the remove of the common paths settles: its result is not read, a throw is caught
removeAvatarAfterFallback(s, res, msg) ==
    /\ calls[s].pc = "removeCommon"
    /\ LET paths == LastIssued(calls[s]).paths
           settle == Settled("remove", paths, res, msg)
       IN IF res = "throws"
          THEN /\ objects' = objects
               /\ error' = <<msg>>
               /\ calls' = [calls EXCEPT ![s].pc = "idle", ![s].outcome = "rejected", ![s].value = <<msg>>,
                                         ![s].log = @ \o <<settle>>]
          ELSE /\ objects' = IF res = "ok" THEN objects \ SeqToSet(paths) ELSE objects
               /\ error' = error
               /\ calls' = [calls EXCEPT ![s].pc = "idle", ![s].outcome = "resolved", ![s].log = @ \o <<settle>>]
    /\ UNCHANGED <<userId, uploading, progress, uploadedUrl, started, returned>>

reset_KeepsUrl ==
    /\ uploading' = FALSE
    /\ progress' = 0
    /\ error' = Null
    /\ UNCHANGED <<userId, uploadedUrl, objects, calls, started, returned>>

reset ==
    /\ uploading' = FALSE
    /\ progress' = 0
    /\ error' = Null
    /\ uploadedUrl' = Null
    /\ UNCHANGED <<userId, objects, calls, started, returned>>

\* outcomes of a storage promise: resolved with data, resolved with an error, rejected
RemoveOutcomes == {"ok", "error", "throws"}
UploadOutcomes == {"ok", "error", "nodata", "throws"}
ListOutcomes == {"ok", "error", "throws"}
MsgOf(res) == IF res \in {"error", "throws"} THEN StorageErrorMessages ELSE {""}

\* one call at a time: the caller awaits each call before making the next
Next ==
    \/ UNCHANGED units /\ \E file \in Files : uploadAvatar(1, file, MaxCalls)
    \/ UNCHANGED units /\ \E res \in RemoveOutcomes : \E msg \in MsgOf(res) : uploadAvatarAfterRemove(1, res, msg)
    \/ UNCHANGED units /\ \E res \in UploadOutcomes : \E msg \in MsgOf(res), now \in ClockValues, frac \in RandomFractions :
          uploadAvatarAfterUpload(1, res, msg, now, frac)
    \/ UNCHANGED units /\ removeAvatar(1, MaxCalls)
    \/ UNCHANGED units /\ \E res \in ListOutcomes : \E msg \in MsgOf(res) : removeAvatarAfterList(1, res, msg)
    \/ UNCHANGED units /\ \E res \in RemoveOutcomes : \E msg \in MsgOf(res) : removeAvatarAfterDelete(1, res, msg)
    \/ UNCHANGED units /\ \E res \in RemoveOutcomes : \E msg \in MsgOf(res) : removeAvatarAfterFallback(1, res, msg)
    \/ UNCHANGED units /\ reset

Spec == Init /\ [][Next]_vars

\* calls may be made while an earlier one is still pending
NextOverlap ==
    \/ UNCHANGED units /\ \E s \in Slots, file \in OverlapFiles : uploadAvatar(s, file, MaxOverlapCalls)
    \/ UNCHANGED units /\ \E s \in Slots, res \in RemoveOutcomes : \E msg \in MsgOf(res) : uploadAvatarAfterRemove(s, res, msg)
    \/ UNCHANGED units /\ \E s \in Slots, res \in UploadOutcomes : \E msg \in MsgOf(res), now \in ClockValues, frac \in RandomFractions :
          uploadAvatarAfterUpload(s, res, msg, now, frac)
    \/ UNCHANGED units /\ \E s \in Slots : removeAvatar(s, MaxOverlapCalls)
    \/ UNCHANGED units /\ \E s \in Slots, res \in ListOutcomes : \E msg \in MsgOf(res) : removeAvatarAfterList(s, res, msg)
    \/ UNCHANGED units /\ \E s \in Slots, res \in RemoveOutcomes : \E msg \in MsgOf(res) : removeAvatarAfterDelete(s, res, msg)
    \/ UNCHANGED units /\ \E s \in Slots, res \in RemoveOutcomes : \E msg \in MsgOf(res) : removeAvatarAfterFallback(s, res, msg)
    \/ UNCHANGED units /\ reset

SpecOverlap == Init /\ [][NextOverlap]_vars

\* ------------------------------------------- SocialLoginButton: actions
\* A press on the enabled button: handlePress up to its await.  onPress
\* returns a promise, or throws before it returns one (the catch and the
\* finally block then run at once); the component re-renders with the new
\* isLoading.
handlePress(outcome, err) ==
    /\ ~button.disabled
    /\ button.presses < MaxPresses
    /\ button' =
         IF outcome = "throws"
         THEN [button EXCEPT !.presses = @ + 1, !.onPressCalls = @ + 1,
                             !.warnings = Append(@, <<button.provider, err>>),
                             !.isLoading = FALSE, !.disabled = FALSE,
                             !.onPress = "threw", !.handlePress = "fulfilled"]
         ELSE [button EXCEPT !.presses = @ + 1, !.onPressCalls = @ + 1,
                             !.isLoading = TRUE, !.disabled = TRUE,
                             !.onPress = "pending", !.handlePress = "pending"]
    /\ UNCHANGED otherThanButton

\* a press while the TouchableOpacity is rendered with disabled={true}
pressWhileDisabled ==
    /\ button.disabled
    /\ button.presses < MaxPresses
    /\ button' = [button EXCEPT !.presses = @ + 1]
    /\ UNCHANGED otherThanButton

handlePressAfterOnPress_NoFinally(res, err) ==
    /\ button.onPress = "pending"
    /\ button' =
         IF res = "rejected"
         THEN [button EXCEPT !.onPress = res, !.warnings = Append(@, <<button.provider, err>>),
                             !.handlePress = "fulfilled"]
         ELSE [button EXCEPT !.onPress = res, !.isLoading = FALSE, !.disabled = FALSE,
                             !.handlePress = "fulfilled"]
    /\ UNCHANGED otherThanButton

\* handlePress after the await: the catch block on a rejection, then finally
handlePressAfterOnPress(res, err) ==
    /\ button.onPress = "pending"
    /\ button' =
         IF res = "rejected"
         THEN [button EXCEPT !.onPress = res, !.warnings = Append(@, <<button.provider, err>>),
                             !.isLoading = FALSE, !.disabled = FALSE, !.handlePress = "fulfilled"]
         ELSE [button EXCEPT !.onPress = res, !.isLoading = FALSE, !.disabled = FALSE,
                             !.handlePress = "fulfilled"]
    /\ UNCHANGED otherThanButton

InitButton ==
    /\ InitHook
    /\ button \in {ButtonOf(p) : p \in Providers}
    /\ screen = ScreenOf([loading |-> TRUE, user |-> NoUser])
    /\ router = RouterOf(<<"/">>)
    /\ google = GoogleModule
    /\ useAuth = UseAuthIdle
    /\ useProfile = UseProfileIdle
    /\ supabaseRun = SupabaseRunIdle
    /\ script = ScriptIdle
    /\ picker = PickerIdle

NextButton ==
    \/ \E outcome \in {"returns", "throws"}, err \in OAuthErrors : handlePress(outcome, err)
    \/ pressWhileDisabled
    \/ \E res \in {"resolved", "rejected"}, err \in OAuthErrors : handlePressAfterOnPress(res, err)

SpecButton == InitButton /\ [][NextButton]_vars

\* ----------------------------------------------- ProfileScreen: actions
\* the auth context changes: the screen renders again and, [auth.loading,
\* auth.user] having changed, the route-protection effect runs again
authChanges(auth) ==
    /\ auth # screen.auth
    /\ screen.changes < MaxAuthChanges
    /\ screen' = [screen EXCEPT !.auth = auth, !.view = render(auth),
                                !.timer = routeProtection(auth, @), !.changes = @ + 1]
    /\ UNCHANGED otherThanScreen

\* time passes while the timer is set
tick ==
    /\ screen.timer > 0
    /\ screen' = [screen EXCEPT !.timer = @ - TickMs]
    /\ UNCHANGED otherThanScreen

\* the setTimeout callback
timerFires ==
    /\ screen.timer = 0
    /\ screen' = [screen EXCEPT !.timer = NoTimer, !.replaced = Append(@, "Login")]
    /\ UNCHANGED otherThanScreen

InitProfile ==
    /\ InitHook
    /\ button = ButtonOf("google")
    /\ screen \in {ScreenOf(auth) : auth \in AuthStates}
    /\ router = RouterOf(<<"/">>)
    /\ google = GoogleModule
    /\ useAuth = UseAuthIdle
    /\ useProfile = UseProfileIdle
    /\ supabaseRun = SupabaseRunIdle
    /\ script = ScriptIdle
    /\ picker = PickerIdle

NextProfile ==
    \/ \E auth \in AuthStates : authChanges(auth)
    \/ tick
    \/ timerFires

\* the event loop runs a timer that is due
SpecProfile == InitProfile /\ [][NextProfile]_vars /\ WF_vars(tick) /\ WF_vars(timerFires)

\* ------------------------------------------------ PRPathRouter: actions
handler ==
    /\ ~router.returned
    /\ router' = [router EXCEPT !.request = handlerUri(router.event), !.returned = TRUE]
    /\ UNCHANGED otherThanRouter

InitRouter ==
    /\ InitHook
    /\ button = ButtonOf("google")
    /\ screen = ScreenOf([loading |-> TRUE, user |-> NoUser])
    /\ router \in {RouterOf(uri) : uri \in Uris}
    /\ google = GoogleModule
    /\ useAuth = UseAuthIdle
    /\ useProfile = UseProfileIdle
    /\ supabaseRun = SupabaseRunIdle
    /\ script = ScriptIdle
    /\ picker = PickerIdle

NextRouter == handler

SpecRouter == InitRouter /\ [][NextRouter]_vars

\* --------------------------------------- configureGoogleSignIn: actions
\* the synchronous part of configureGoogleSignIn
configureGoogleSignIn(options) ==
    /\ google.calls < MaxConfigureCalls
    /\ google' =
         IF google.isConfigured /\ google.configurePromise # NoPromise
         THEN [google EXCEPT !.calls = @ + 1, !.lastOptions = options,
                             !.lastReturned = google.configurePromise]
         ELSE IF options.webClientId = ""
         THEN [google EXCEPT !.calls = @ + 1, !.lastOptions = options,
                             !.warnings = @ + 1, !.lastReturned = FreshResolved]
         ELSE LET id == Len(google.promises) + 1
              IN [google EXCEPT !.calls = @ + 1, !.lastOptions = options,
                                !.promises = Append(@, "pending"),
                                !.jobs = Append(@, [stage |-> "timer", options |-> options]),
                                !.configurePromise = id, !.lastReturned = id]
    /\ UNCHANGED otherThanGoogle

\* the setTimeout callback of the id-th promise: the dynamic import starts
importModule(id) ==
    /\ id \in 1..Len(google.jobs)
    /\ google.jobs[id].stage = "timer"
    /\ google' = [google EXCEPT !.jobs[id].stage = "import", !.imports = @ + 1]
    /\ UNCHANGED otherThanGoogle

importSettles_RejectsOnFailure(id, outcome) ==
    /\ id \in 1..Len(google.jobs)
    /\ google.jobs[id].stage = "import"
    /\ google' =
         CASE outcome = "configured" ->
                [google EXCEPT !.configureCalls = Append(@, [config |-> ConfigOf(google.jobs[id].options), threw |-> FALSE]),
                               !.isConfigured = TRUE, !.promises[id] = "resolved", !.jobs[id].stage = "done"]
           [] outcome = "configureThrows" ->
                [google EXCEPT !.configureCalls = Append(@, [config |-> ConfigOf(google.jobs[id].options), threw |-> TRUE]),
                               !.isConfigured = FALSE, !.configurePromise = NoPromise,
                               !.promises[id] = "rejected", !.jobs[id].stage = "failed"]
           [] OTHER ->
                [google EXCEPT !.isConfigured = FALSE, !.configurePromise = NoPromise,
                               !.promises[id] = "rejected", !.jobs[id].stage = "failed"]
    /\ UNCHANGED otherThanGoogle

\* the import settles: .then configures (GoogleSignin.configure may throw),
\* .catch handles a failed import; the promise resolves in every case
importSettles(id, outcome) ==
    /\ id \in 1..Len(google.jobs)
    /\ google.jobs[id].stage = "import"
    /\ google' =
         CASE outcome = "configured" ->
                [google EXCEPT !.configureCalls = Append(@, [config |-> ConfigOf(google.jobs[id].options), threw |-> FALSE]),
                               !.isConfigured = TRUE, !.promises[id] = "resolved", !.jobs[id].stage = "done"]
           [] outcome = "configureThrows" ->
                [google EXCEPT !.configureCalls = Append(@, [config |-> ConfigOf(google.jobs[id].options), threw |-> TRUE]),
                               !.isConfigured = FALSE, !.configurePromise = NoPromise,
                               !.promises[id] = "resolved", !.jobs[id].stage = "failed"]
           [] OTHER ->
                [google EXCEPT !.isConfigured = FALSE, !.configurePromise = NoPromise,
                               !.promises[id] = "resolved", !.jobs[id].stage = "failed"]
    /\ UNCHANGED otherThanGoogle

InitGoogle ==
    /\ InitHook
    /\ button = ButtonOf("google")
    /\ screen = ScreenOf([loading |-> TRUE, user |-> NoUser])
    /\ router = RouterOf(<<"/">>)
    /\ google = GoogleModule
    /\ useAuth = UseAuthIdle
    /\ useProfile = UseProfileIdle
    /\ supabaseRun = SupabaseRunIdle
    /\ script = ScriptIdle
    /\ picker = PickerIdle

NextGoogle ==
    \/ \E options \in GoogleOptions : configureGoogleSignIn(options)
    \/ \E id \in 1..MaxConfigureCalls : importModule(id)
    \/ \E id \in 1..MaxConfigureCalls, outcome \in ImportOutcomes : importSettles(id, outcome)

SpecGoogle == InitGoogle /\ [][NextGoogle]_vars

\* the event loop runs a timer that is due, and a dynamic import settles
SpecGoogleLive ==
    /\ InitGoogle /\ [][NextGoogle]_vars
    /\ \A id \in 1..MaxConfigureCalls :
          WF_vars(importModule(id)) /\ WF_vars(\E outcome \in ImportOutcomes : importSettles(id, outcome))
\* ------------------------------------------------------ useAuth: actions
AuthSettled(a, outcome, value) ==
    [a EXCEPT !.call.pc = "idle", !.call.outcome = outcome, !.call.value = value]

AuthStarted(a, op, pc) ==
    [a EXCEPT !.loading = TRUE, !.error = Null, !.calls = @ + 1,
              !.call = [NoAuthCall EXCEPT !.op = op, !.pc = pc]]

\* getSession().then(...)
getSessionResolves(session) ==
    /\ ~useAuth.sessionLoaded
    /\ useAuth' = [useAuth EXCEPT !.session = session, !.user = UserOf(session),
                                  !.loading = FALSE, !.sessionLoaded = TRUE]
    /\ UNCHANGED otherThanUseAuth

\* the onAuthStateChange listener
onAuthStateChange(newSession, limit) ==
    /\ useAuth.events < limit
    /\ useAuth' = [useAuth EXCEPT !.session = newSession, !.user = UserOf(newSession),
                                  !.loading = FALSE, !.events = @ + 1]
    /\ UNCHANGED otherThanUseAuth

\* signIn up to its await
signIn(limit) ==
    /\ useAuth.call.pc = "idle" /\ useAuth.calls < limit
    /\ useAuth' = AuthStarted(useAuth, "signIn", "signInWithPassword")
    /\ UNCHANGED otherThanUseAuth

\* signUp up to its await
signUp(limit) ==
    /\ useAuth.call.pc = "idle" /\ useAuth.calls < limit
    /\ useAuth' = AuthStarted(useAuth, "signUp", "signUp")
    /\ UNCHANGED otherThanUseAuth

AfterPasswordApi_Finally(a, res, msg) ==
    CASE res = "ok" -> AuthSettled([a EXCEPT !.call.api = res, !.loading = FALSE], "resolved", Null)
      [] res = "error" -> AuthSettled([a EXCEPT !.call.api = res, !.loading = FALSE, !.error = <<msg>>], "rejected", <<msg>>)
      [] OTHER -> AuthSettled([a EXCEPT !.call.api = res, !.loading = FALSE], "rejected", <<msg>>)

\* signIn and signUp after the await: the API promise resolved without an
\* error, resolved with one, or rejected (the rejection leaves the function
\* at the await)
AfterPasswordApi(a, res, msg) ==
    CASE res = "ok" -> AuthSettled([a EXCEPT !.call.api = res, !.loading = FALSE], "resolved", Null)
      [] res = "error" -> AuthSettled([a EXCEPT !.call.api = res, !.loading = FALSE, !.error = <<msg>>], "rejected", <<msg>>)
      [] OTHER -> AuthSettled([a EXCEPT !.call.api = res], "rejected", <<msg>>)

ApiOutcomes == {"ok", "error", "throws"}

signInAfterSignInWithPassword(res, msg) ==
    /\ useAuth.call.pc = "signInWithPassword"
    /\ useAuth' = AfterPasswordApi(useAuth, res, msg)
    /\ UNCHANGED otherThanUseAuth

signUpAfterSignUp(res, msg) ==
    /\ useAuth.call.pc = "signUp"
    /\ useAuth' = AfterPasswordApi(useAuth, res, msg)
    /\ UNCHANGED otherThanUseAuth

\* signOut up to its await
signOut(limit) ==
    /\ useAuth.call.pc = "idle" /\ useAuth.calls < limit
    /\ useAuth' = AuthStarted(useAuth, "signOut", "signOut")
    /\ UNCHANGED otherThanUseAuth

\* setSession(null); setUser(null); setLoading(false), and signOut returns
SignedOut(a) ==
    AuthSettled([a EXCEPT !.session = NoSession, !.user = NoUser, !.loading = FALSE], "resolved", Null)

\* signOut after auth.signOut settles: done when it returned no error;
\* otherwise the warning and, with a storage adapter, getAllKeys
signOutAfterSignOut(res) ==
    /\ useAuth.call.pc = "signOut"
    /\ useAuth' =
         IF res = "ok" THEN AuthSettled([useAuth EXCEPT !.call.api = res, !.loading = FALSE], "resolved", Null)
         ELSE IF ~getAuthStorage(useAuth.storage)
              THEN SignedOut([useAuth EXCEPT !.call.api = res, !.warnings = @ + 1])
              ELSE [useAuth EXCEPT !.call.api = res, !.warnings = @ + 1, !.call.pc = "getAllKeys"]
    /\ UNCHANGED otherThanUseAuth

\* after storage.getAllKeys(): removeItem is called for every Supabase key
signOutAfterGetAllKeys(res) ==
    /\ useAuth.call.pc = "getAllKeys"
    /\ useAuth' =
         IF res = "throws" THEN SignedOut([useAuth EXCEPT !.warnings = @ + 1])
         ELSE [useAuth EXCEPT !.call.pc = "removeItem",
                              !.call.removing = {key \in useAuth.storage : IsSupabaseKey(key)}]
    /\ UNCHANGED otherThanUseAuth

\* after Promise.all of the removeItem calls, those of the keys in failed
\* having rejected
signOutAfterRemoveItem(failed) ==
    /\ useAuth.call.pc = "removeItem"
    /\ failed \subseteq useAuth.call.removing
    /\ useAuth' = SignedOut([useAuth EXCEPT !.storage = @ \ (useAuth.call.removing \ failed),
                                            !.warnings = IF failed = {} THEN @ ELSE @ + 1])
    /\ UNCHANGED otherThanUseAuth

InitAuth ==
    /\ InitHook
    /\ button = ButtonOf("google")
    /\ screen = ScreenOf([loading |-> TRUE, user |-> NoUser])
    /\ router = RouterOf(<<"/">>)
    /\ google = GoogleModule
    /\ useAuth \in {UseAuthOf(storage) : storage \in {NoStorage} \cup SUBSET StorageKeys}
    /\ useProfile = UseProfileIdle
    /\ supabaseRun = SupabaseRunIdle
    /\ script = ScriptIdle
    /\ picker = PickerIdle

NextAuth ==
    \/ \E session \in Sessions : getSessionResolves(session)
    \/ \E session \in Sessions : onAuthStateChange(session, MaxAuthEvents)
    \/ signIn(MaxAuthCalls)
    \/ signUp(MaxAuthCalls)
    \/ \E res \in ApiOutcomes, msg \in AuthErrorMessages : signInAfterSignInWithPassword(res, msg)
    \/ \E res \in ApiOutcomes, msg \in AuthErrorMessages : signUpAfterSignUp(res, msg)
    \/ signOut(MaxAuthCalls)
    \/ \E res \in ApiOutcomes : signOutAfterSignOut(res)
    \/ \E res \in {"ok", "throws"} : signOutAfterGetAllKeys(res)
    \/ \E failed \in SUBSET StorageKeys : signOutAfterRemoveItem(failed)

SpecAuth == InitAuth /\ [][NextAuth]_vars

\* --------------------------------------------- signInWithGoogle: actions
StatusCodes == {"SIGN_IN_CANCELLED", "IN_PROGRESS", "PLAY_SERVICES_NOT_AVAILABLE"}
\* what an SDK call can reject with: an error carrying a status code, or one without a code
SdkErrors == {[code |-> c, message |-> "sdk error"] : c \in StatusCodes} \cup {[code |-> "", message |-> "network error"]}
NotAvailableMessage == "Google Sign-In module not available"
NotConfiguredMessage == "Google Sign-In not configured. Configuration may have failed silently. Please check the logs for configuration errors and ensure webClientId is set."

\* the message of the error the catch block sets and throws
GoogleCatch(err) ==
    CASE err.code = "SIGN_IN_CANCELLED" -> "Google sign-in was cancelled"
      [] err.code = "IN_PROGRESS" -> "Google sign-in already in progress"
      [] err.code = "PLAY_SERVICES_NOT_AVAILABLE" -> "Google Play Services not available"
      [] OTHER -> err.message

\* catch (setError, throw) and finally (setLoading(false))
GoogleRejected(a, msg) ==
    AuthSettled([a EXCEPT !.error = <<msg>>, !.loading = FALSE], "rejected", <<msg>>)

SdkCall(a, op) ==
    [a EXCEPT !.call.pc = op, !.call.sdk = Append(@, [op |-> op, isConfigured |-> google.isConfigured])]

\* signInWithGoogle up to its first await: the stored configurePromise when
\* there is one, getGoogleSignIn() otherwise
signInWithGoogle(limit) ==
    /\ useAuth.call.pc = "idle" /\ useAuth.calls < limit
    /\ useAuth' =
         [AuthStarted(useAuth, "signInWithGoogle",
                      IF google.configurePromise # NoPromise THEN "configurePromise" ELSE "getGoogleSignIn")
            EXCEPT !.call.waiting = google.configurePromise]
    /\ UNCHANGED otherThanUseAuth

\* the awaited configurePromise is resolved
signInWithGoogleAfterConfigure ==
    /\ useAuth.call.pc = "configurePromise"
    /\ google.promises[useAuth.call.waiting] = "resolved"
    /\ useAuth' = [useAuth EXCEPT !.call.pc = "getGoogleSignIn"]
    /\ UNCHANGED otherThanUseAuth

signInWithGoogleAfterGetGoogleSignIn_NoConfiguredCheck(imported) ==
    /\ useAuth.call.pc = "getGoogleSignIn"
    /\ LET loaded == useAuth.GoogleSignin \/ imported
           a == [useAuth EXCEPT !.GoogleSignin = loaded, !.warnings = IF loaded THEN @ ELSE @ + 1]
       IN useAuth' =
            IF ~loaded THEN GoogleRejected(a, NotAvailableMessage)
            ELSE SdkCall(a, "hasPlayServices")
    /\ UNCHANGED otherThanUseAuth

\* after getGoogleSignIn(), which imports the module unless it has it (a
\* failed import is logged): the two checks, then GSI.hasPlayServices()
signInWithGoogleAfterGetGoogleSignIn(imported) ==
    /\ useAuth.call.pc = "getGoogleSignIn"
    /\ LET loaded == useAuth.GoogleSignin \/ imported
           a == [useAuth EXCEPT !.GoogleSignin = loaded, !.warnings = IF loaded THEN @ ELSE @ + 1]
       IN useAuth' =
            IF ~loaded THEN GoogleRejected(a, NotAvailableMessage)
            ELSE IF ~google.isConfigured THEN GoogleRejected(a, NotConfiguredMessage)
            ELSE SdkCall(a, "hasPlayServices")
    /\ UNCHANGED otherThanUseAuth

\* after hasPlayServices(): GSI.signIn(), or the catch block (whose
\* getGoogleSignIn() has the module already)
signInWithGoogleAfterHasPlayServices(res, err) ==
    /\ useAuth.call.pc = "hasPlayServices"
    /\ useAuth' = IF res = "ok" THEN SdkCall(useAuth, "signIn") ELSE GoogleRejected(useAuth, GoogleCatch(err))
    /\ UNCHANGED otherThanUseAuth

signInWithGoogleAfterSignIn(res, err) ==
    /\ useAuth.call.pc = "signIn"
    /\ useAuth' = IF res = "ok" THEN SdkCall(useAuth, "getTokens") ELSE GoogleRejected(useAuth, GoogleCatch(err))
    /\ UNCHANGED otherThanUseAuth

\* after getTokens(): signInWithIdToken when there is an idToken
signInWithGoogleAfterGetTokens(res, err) ==
    /\ useAuth.call.pc = "getTokens"
    /\ useAuth' =
         CASE res = "token" -> [useAuth EXCEPT !.call.pc = "signInWithIdToken"]
           [] res = "noToken" -> GoogleRejected(useAuth, "No ID token received from Google")
           [] OTHER -> GoogleRejected(useAuth, GoogleCatch(err))
    /\ UNCHANGED otherThanUseAuth

\* after auth.signInWithIdToken(): authError is thrown into the catch block
signInWithGoogleAfterSignInWithIdToken(res, msg) ==
    /\ useAuth.call.pc = "signInWithIdToken"
    /\ useAuth' =
         IF res = "ok" THEN AuthSettled([useAuth EXCEPT !.loading = FALSE], "resolved", Null)
         ELSE GoogleRejected(useAuth, msg)
    /\ UNCHANGED otherThanUseAuth

\* configurations whose options differ in webClientId only
SignInOptions == {o \in GoogleOptions : o.iosClientId = ""}

NextGoogleSignIn ==
    \/ google.calls < MaxSignInConfigures /\ \E options \in SignInOptions : configureGoogleSignIn(options)
    \/ \E id \in 1..MaxSignInConfigures : importModule(id)
    \/ \E id \in 1..MaxSignInConfigures, outcome \in ImportOutcomes : importSettles(id, outcome)
    \/ signInWithGoogle(MaxGoogleSignIns)
    \/ signInWithGoogleAfterConfigure
    \/ \E imported \in BOOLEAN : signInWithGoogleAfterGetGoogleSignIn(imported)
    \/ \E res \in {"ok", "throws"}, err \in SdkErrors : signInWithGoogleAfterHasPlayServices(res, err)
    \/ \E res \in {"ok", "throws"}, err \in SdkErrors : signInWithGoogleAfterSignIn(res, err)
    \/ \E res \in {"token", "noToken", "throws"}, err \in SdkErrors : signInWithGoogleAfterGetTokens(res, err)
    \/ \E res \in ApiOutcomes, msg \in AuthErrorMessages : signInWithGoogleAfterSignInWithIdToken(res, msg)

SpecGoogleSignIn == Init /\ [][NextGoogleSignIn]_vars

\* --------------------------------------------------- useProfile: actions
\* fetchProfile(userId) up to its await
fetchProfile(p, uid) ==
    [p EXCEPT !.loading = TRUE, !.error = Null, !.fetches = Append(@, FetchOf(uid))]

\* the user prop changes: the auto-fetch effect runs for the new user?.id
userChanges(user) ==
    /\ user # useProfile.user
    /\ useProfile.changes < MaxUserChanges
    /\ Len(useProfile.fetches) < MaxFetches
    /\ useProfile' =
         LET p == [useProfile EXCEPT !.user = user, !.changes = @ + 1]
         IN IF user # NoUser THEN fetchProfile(p, user)
            ELSE [p EXCEPT !.profile = NoProfile, !.loading = FALSE]
    /\ UNCHANGED otherThanUseProfile

\* refreshProfile up to its await
refreshProfile ==
    /\ useProfile.user # NoUser
    /\ Len(useProfile.fetches) < MaxFetches
    /\ useProfile' = fetchProfile(useProfile, useProfile.user)
    /\ UNCHANGED otherThanUseProfile

fetchProfileAfterSelect_NoRowsIsError(i, res, msg) ==
    /\ i \in 1..Len(useProfile.fetches)
    /\ useProfile.fetches[i].pc = "select"
    /\ useProfile' =
         CASE res = "data" ->
                [useProfile EXCEPT !.profile = ProfileOf(useProfile.fetches[i].userId), !.loading = FALSE,
                                   !.fetches[i] = [@ EXCEPT !.pc = "idle", !.api = res, !.outcome = "resolved"]]
           [] OTHER ->
                [useProfile EXCEPT !.error = <<msg>>, !.loading = FALSE,
                                   !.fetches[i] = [@ EXCEPT !.pc = "idle", !.api = res, !.outcome = "rejected", !.value = <<msg>>]]
    /\ UNCHANGED otherThanUseProfile

\* fetchProfile after the await, with the catch and finally blocks
fetchProfileAfterSelect(i, res, msg) ==
    /\ i \in 1..Len(useProfile.fetches)
    /\ useProfile.fetches[i].pc = "select"
    /\ useProfile' =
         CASE res = "data" ->
                [useProfile EXCEPT !.profile = ProfileOf(useProfile.fetches[i].userId), !.loading = FALSE,
                                   !.fetches[i] = [@ EXCEPT !.pc = "idle", !.api = res, !.outcome = "resolved"]]
           [] res = "PGRST116" ->
                [useProfile EXCEPT !.profile = NoProfile, !.error = Null, !.loading = FALSE,
                                   !.fetches[i] = [@ EXCEPT !.pc = "idle", !.api = res, !.outcome = "resolved"]]
           [] OTHER ->
                [useProfile EXCEPT !.error = <<msg>>, !.loading = FALSE,
                                   !.fetches[i] = [@ EXCEPT !.pc = "idle", !.api = res, !.outcome = "rejected", !.value = <<msg>>]]
    /\ UNCHANGED otherThanUseProfile

InitUseProfile ==
    /\ InitHook
    /\ button = ButtonOf("google")
    /\ screen = ScreenOf([loading |-> TRUE, user |-> NoUser])
    /\ router = RouterOf(<<"/">>)
    /\ google = GoogleModule
    /\ useAuth = UseAuthIdle
    /\ useProfile \in {UseProfileOf(user) : user \in {NoUser} \cup AuthUsers}
    /\ supabaseRun = SupabaseRunIdle
    /\ script = ScriptIdle
    /\ picker = PickerIdle

NextUseProfile ==
    \/ \E user \in {NoUser} \cup AuthUsers : userChanges(user)
    \/ refreshProfile
    \/ \E i \in 1..MaxFetches, res \in SelectOutcomes, msg \in ProfileErrorMessages : fetchProfileAfterSelect(i, res, msg)

SpecUseProfile == InitUseProfile /\ [][NextUseProfile]_vars

\* ------------------------------------------------- supabase_run: actions
\* supabase_run [--allow-fail] description command..., up to the loop
supabase_run(allow_fail, dry, retries) ==
    /\ supabaseRun.pc = "idle"
    /\ supabaseRun' =
          IF dry
          THEN [supabaseRun EXCEPT !.pc = "returned", !.allow_fail = allow_fail,
                                   !.DRY_RUN = TRUE, !.SUPABASE_MAX_RETRIES = retries,
                                   !.returns = 0]
          ELSE [supabaseRun EXCEPT !.pc = "loop", !.allow_fail = allow_fail,
                                   !.SUPABASE_MAX_RETRIES = retries,
                                   !.max_attempts = ParamDefault(retries, 3),
                                   !.attempt = 1, !.delay = 5]
    /\ UNCHANGED otherThanSupabaseRun

\* one pass of the while loop: the command runs, ending with exit code exit
\* and output; the call returns or sleeps and goes round again
supabase_runAttempt(exit, output) ==
    /\ supabaseRun.pc = "loop"
    /\ LET status == statusOf(exit, output)
           ran == [supabaseRun EXCEPT !.status = status,
                                      !.invocations = Append(@, [exit |-> exit, output |-> output])]
       IN supabaseRun' =
            IF status = 0
            THEN [ran EXCEPT !.pc = "returned", !.returns = 0]
            ELSE IF lastAttempt(ran.attempt, ran.max_attempts)
            THEN [ran EXCEPT !.pc = "returned",
                             !.returns = IF ran.allow_fail # 0 THEN 0 ELSE status]
            ELSE [ran EXCEPT !.sleeps = Append(@, ran.delay),
                             !.attempt = @ + 1,
                             !.delay = @ * 2]
    /\ UNCHANGED otherThanSupabaseRun

InitSupabaseRun ==
    /\ InitHook
    /\ button = ButtonOf("google")
    /\ screen = ScreenOf([loading |-> TRUE, user |-> NoUser])
    /\ router = RouterOf(<<"/">>)
    /\ google = GoogleModule
    /\ useAuth = UseAuthIdle
    /\ useProfile = UseProfileIdle
    /\ supabaseRun = SupabaseRunIdle
    /\ script = ScriptIdle
    /\ picker = PickerIdle

NextSupabaseRun ==
    \/ \E allow_fail \in {0, 1}, dry \in BOOLEAN, retries \in MaxRetriesEnv :
          supabase_run(allow_fail, dry, retries)
    \/ \E exit \in ExitCodes, output \in CommandOutputs : supabase_runAttempt(exit, output)

SpecSupabaseRun == InitSupabaseRun /\ [][NextSupabaseRun]_vars

\* every command the script runs ends, so a call in the loop makes its next pass
SpecSupabaseRunLive ==
    SpecSupabaseRun /\ WF_vars(\E exit \in ExitCodes, output \in CommandOutputs :
                                  supabase_runAttempt(exit, output))

\* ------------------------------------------- preview-database script: actions
\* main up to checkout_baseline: parse_args and ensure_prereqs exit 1 on a
\* missing argument or tool
main(prereqs) ==
    /\ script.pc = "main"
    /\ script' = IF prereqs
                 THEN [script EXCEPT !.pc = "checkout_baseline"]
                 ELSE [script EXCEPT !.pc = "exited", !.exit = <<1>>]
    /\ UNCHANGED otherThanScript

\* main "$@" || true, then exit 0
mainReturns(s) == [s EXCEPT !.pc = "exited", !.exit = <<0>>]

\* the if ! checkout_baseline of main, and the SUPABASE_HAS_CHANGES test
checkout_baseline(outcome) ==
    /\ script.pc = "checkout_baseline"
    /\ outcome = "unchanged" => (script.SKIP_IF_UNCHANGED /\ ~script.DRY_RUN)
    /\ script' =
          CASE outcome = "unresolved" -> mainReturns(script)
            [] outcome = "unchanged" ->
                  [script EXCEPT !.SUPABASE_HAS_CHANGES = FALSE, !.db_success = TRUE,
                                 !.pc = "write_output"]
            [] OTHER -> [script EXCEPT !.pc = "link_supabase"]
    /\ UNCHANGED otherThanScript

\* the else branch of if link_supabase && reset_database && seed_database
databaseFailed(s) == [s EXCEPT !.db_success = FALSE, !.pc = "unlink_supabase"]

link_supabase(failed) ==
    /\ script.pc = "link_supabase"
    /\ LET run == CommandOf("link", 0, script.DRY_RUN, failed)
           ran == [script EXCEPT !.commands = Append(@, run)]
       IN script' = IF run.status = 0
                    THEN [ran EXCEPT !.pc = "reset_database"]
                    ELSE databaseFailed(ran)
    /\ UNCHANGED otherThanScript

reset_database(failed) ==
    /\ script.pc = "reset_database"
    /\ LET run == CommandOf("db reset", 0, script.DRY_RUN, failed)
           ran == [script EXCEPT !.commands = Append(@, run)]
       IN script' = IF run.status = 0
                    THEN [ran EXCEPT !.pc = "seed_database"]
                    ELSE databaseFailed(ran)
    /\ UNCHANGED otherThanScript

\* the status seed_database returns and the commands it runs: the status of
\* the subshell that seeds is not looked at, the function ends with the push
seed_databaseRuns(s, seedFailed, pushFailed) ==
    IF ~s.RUN_SEED \/ ~s.seedFile
    THEN [status |-> 0, commands |-> <<>>]
    ELSE LET seed == CommandOf("db seed", 0, s.DRY_RUN, seedFailed)
             push == CommandOf("db push", 0, s.DRY_RUN, pushFailed)
         IN [status |-> push.status, commands |-> <<seed, push>>]

seed_database(seedFailed, pushFailed) ==
    /\ script.pc = "seed_database"
    /\ LET runs == seed_databaseRuns(script, seedFailed, pushFailed)
           ran == [script EXCEPT !.commands = @ \o runs.commands]
       IN script' = IF runs.status = 0
                    THEN [ran EXCEPT !.db_success = TRUE, !.pc = "generate_types"]
                    ELSE databaseFailed(ran)
    /\ UNCHANGED otherThanScript

\* the status generate_types returns and the commands it runs: gen_status=0
\* is assigned inside ( ... ), so the function's gen_status keeps its 1
generate_typesRuns(s, failed, valid) ==
    IF ~s.GENERATE_TYPES \/ s.DRY_RUN
    THEN [status |-> 0, commands |-> <<>>]
    ELSE LET run == CommandOf("gen types", 0, s.DRY_RUN, failed)
             gen_status == 1
         IN [status |-> IF gen_status = 0 /\ valid THEN 0 ELSE 1,
             commands |-> <<run>>]

generate_types(failed, valid) ==
    /\ script.pc = "generate_types"
    /\ LET runs == generate_typesRuns(script, failed, valid)
       IN script' = [script EXCEPT !.commands = @ \o runs.commands,
                                   !.db_success = (runs.status = 0),
                                   !.pc = "unlink_supabase"]
    /\ UNCHANGED otherThanScript

\* unlink_supabase || true
unlink_supabase(failed) ==
    /\ script.pc = "unlink_supabase"
    /\ script' = [script EXCEPT
                     !.commands = Append(@, CommandOf("unlink", 1, script.DRY_RUN, failed)),
                     !.pc = "write_output"]
    /\ UNCHANGED otherThanScript

\* write_output "SUPABASE_SUCCESS" "${db_success}", the end of main and exit 0
write_output ==
    /\ script.pc = "write_output"
    /\ script' = mainReturns([script EXCEPT !.outputs = Append(@, script.db_success)])
    /\ UNCHANGED otherThanScript

InitScript ==
    /\ InitHook
    /\ button = ButtonOf("google")
    /\ screen = ScreenOf([loading |-> TRUE, user |-> NoUser])
    /\ router = RouterOf(<<"/">>)
    /\ google = GoogleModule
    /\ useAuth = UseAuthIdle
    /\ useProfile = UseProfileIdle
    /\ supabaseRun = SupabaseRunIdle
    /\ script \in {ScriptOf(dry, skip, types, seed, seedFile) :
                      dry \in BOOLEAN, skip \in BOOLEAN, types \in BOOLEAN,
                      seed \in BOOLEAN, seedFile \in BOOLEAN}
    /\ picker = PickerIdle

NextScript ==
    \/ \E prereqs \in BOOLEAN : main(prereqs)
    \/ \E outcome \in CheckoutOutcomes : checkout_baseline(outcome)
    \/ \E failed \in BOOLEAN : link_supabase(failed)
    \/ \E failed \in BOOLEAN : reset_database(failed)
    \/ \E seedFailed \in BOOLEAN, pushFailed \in BOOLEAN : seed_database(seedFailed, pushFailed)
    \/ \E failed \in BOOLEAN, valid \in BOOLEAN : generate_types(failed, valid)
    \/ \E failed \in BOOLEAN : unlink_supabase(failed)
    \/ write_output

SpecScript == InitScript /\ [][NextScript]_vars

\* ------------------------------------------- AvatarUpload (native): actions
\* handlePickImage up to the await of FileSystem.readAsStringAsync
handlePickImage ==
    /\ picker.pc = "idle"
    /\ picker' = [picker EXCEPT !.pc = "read"]
    /\ UNCHANGED otherThanPicker

\* the continuation: the empty check, then the decoder
handlePickImageAfterRead ==
    /\ picker.pc = "read"
    /\ LET base64 == readAsBase64(picker.file)
       IN picker' =
            IF Len(base64) = 0
            THEN [picker EXCEPT !.pc = "thrown", !.base64 = base64,
                                !.thrown = "Image file is empty or could not be read"]
            ELSE [picker EXCEPT !.pc = "decoded", !.base64 = base64,
                                !.uint8Array = Uint8ArrayOf(decodeFrom(cleanBase64(base64), 0))]
    /\ UNCHANGED otherThanPicker

InitPicker ==
    /\ InitHook
    /\ button = ButtonOf("google")
    /\ screen = ScreenOf([loading |-> TRUE, user |-> NoUser])
    /\ router = RouterOf(<<"/">>)
    /\ google = GoogleModule
    /\ useAuth = UseAuthIdle
    /\ useProfile = UseProfileIdle
    /\ supabaseRun = SupabaseRunIdle
    /\ script = ScriptIdle
    /\ picker \in {PickerOf(file) : file \in ImageFiles}

NextPicker ==
    \/ handlePickImage
    \/ handlePickImageAfterRead

SpecPicker == InitPicker /\ [][NextPicker]_vars

\* ------------------------------------------------------------ claim helpers
UploadCallOf(c) == c.op = "uploadAvatar"
RemoveCallOf(c) == c.op = "removeAvatar"
Settles(c) == c.op # "none" /\ c.pc = "idle"
HasIssued(c, op) == \E i \in 1..Len(c.log) : c.log[i].ev = "call" /\ c.log[i].op = op
MessageContains(m, piece) == \E i \in 1..Len(m) : m[i] = piece
Contains2MB(m) == \E i \in 1..(Len(m) - 1) : m[i] = "2" /\ m[i + 1] = "MB"

\* ---------------------------------------------------------------------- C1
\* C1 (as stated): every uploadAvatar input of more than 2,097,152 bytes, an
\* ArrayBuffer included, is rejected with a message containing "2MB" and the
\* call never issues the storage upload.
C1_EveryInputOver2MBRejected ==
    \A s \in Slots :
        (UploadCallOf(calls[s]) /\ calls[s].file.size > MAX_FILE_SIZE) =>
            /\ ~HasIssued(calls[s], "upload")
            /\ Settles(calls[s]) => (calls[s].outcome = "rejected" /\ Contains2MB(calls[s].value))

\* C1 (amended): every File or Blob input of more than 2,097,152 bytes is
\* rejected with a message containing "2MB" before any storage call is made;
\* an ArrayBuffer input is not size-checked.
C1_FileOrBlobOver2MBRejected ==
    \A s \in Slots :
        /\ (UploadCallOf(calls[s]) /\ calls[s].file.kind \in {"File", "Blob"} /\ calls[s].file.size > MAX_FILE_SIZE) =>
            /\ calls[s].outcome = "rejected"
            /\ Contains2MB(calls[s].value)
            /\ ~HasIssued(calls[s], "upload")
        /\ (UploadCallOf(calls[s]) /\ calls[s].file.kind = "ArrayBuffer") => HasIssued(calls[s], "remove")

C1_Witness ==
    \E s \in Slots :
        /\ UploadCallOf(calls[s]) /\ calls[s].file.kind = "Blob" /\ calls[s].file.size = MAX_FILE_SIZE + 1
        /\ calls[s].outcome = "rejected" /\ Contains2MB(calls[s].value)

\* ---------------------------------------------------------------------- C2
\* C2 (as stated): every uploadAvatar input whose MIME type is not image/jpeg,
\* image/png or image/webp (File, typed Blob or typed ArrayBuffer) is rejected
\* with a message containing "JPEG, PNG, or WebP".
C2_EveryForeignTypeRejected ==
    \A s \in Slots :
        (UploadCallOf(calls[s]) /\ calls[s].file.type \notin ALLOWED_MIME_TYPES /\ Settles(calls[s])) =>
            /\ calls[s].outcome = "rejected"
            /\ MessageContains(calls[s].value, "JPEG, PNG, or WebP")

\* C2 (amended): every File input of at most 2,097,152 bytes whose MIME type
\* is not one of the three is rejected with a message containing
\* "JPEG, PNG, or WebP" before any storage call; a Blob or ArrayBuffer of any
\* type that passes the size check goes on to the storage calls.
C2_SmallFileForeignTypeRejected ==
    \A s \in Slots :
        LET c == calls[s] IN
        /\ (UploadCallOf(c) /\ c.file.kind = "File" /\ c.file.size <= MAX_FILE_SIZE /\ c.file.type \notin ALLOWED_MIME_TYPES) =>
              /\ c.outcome = "rejected"
              /\ MessageContains(c.value, "JPEG, PNG, or WebP")
              /\ c.log = <<>>
        /\ (UploadCallOf(c) /\ c.file.kind # "File" /\ (c.file.size <= MAX_FILE_SIZE \/ c.file.kind = "ArrayBuffer")) =>
              HasIssued(c, "remove")

C2_Witness ==
    \E s \in Slots :
        /\ UploadCallOf(calls[s]) /\ calls[s].file = [kind |-> "File", type |-> "application/pdf", size |-> MAX_FILE_SIZE]
        /\ calls[s].outcome = "rejected"
        /\ MessageContains(calls[s].value, "JPEG, PNG, or WebP")

\* ---------------------------------------------------------------------- C3
ExpectedExtension(type) ==
    CASE type = "image/jpeg" -> <<"j", "p", "g">>
      [] type = "image/png"  -> <<"p", "n", "g">>
      [] type = "image/webp" -> <<"w", "e", "b", "p">>
      [] OTHER -> <<"j", "p", "g">>

ExpectedPath(uid, type) == uid \o <<"/", "a", "v", "a", "t", "a", "r", ".">> \o ExpectedExtension(type)

BeforeQuery(url) ==
    IF \E i \in 1..Len(url) : url[i] = "?"
    THEN SubSeq(url, 1, (CHOOSE i \in 1..Len(url) : url[i] = "?" /\ \A j \in 1..(i - 1) : url[j] # "?") - 1)
    ELSE url

\* C4: two successful uploadAvatar calls for the same user and file type
\* return different URLs with the same part before '?', whatever the clock
\* and the random token are.
C4_TwoUploadsDistinctUrls ==
    [][\A s \in Slots :
          (/\ calls[s].pc = "upload" /\ calls'[s].outcome = "resolved"
           /\ returned # <<>> /\ returned[1].type = calls[s].file.type) =>
              /\ calls'[s].value # returned[1].url
              /\ BeforeQuery(calls'[s].value) = BeforeQuery(returned[1].url)]_vars

\* ---------------------------------------------------------------------- C5
IsDecimalDigit(ch) == \E d \in 1..10 : DecimalDigits[d] = ch

\* url = publicUrl ?t=<digits, one or more> &v=<a-z0-9, one or more>
CacheBustedForm(url, publicUrl) ==
    /\ StartsWith(url, publicUrl \o <<"?", "t", "=">>)
    /\ LET rest == Substring(url, Len(publicUrl) + 3)
       IN \E k \in 1..Len(rest) :
             /\ \A i \in 1..k : IsDecimalDigit(rest[i])
             /\ ContainsAt(rest, <<"&", "v", "=">>, k + 1)
             /\ Len(rest) > k + 3
             /\ \A i \in (k + 4)..Len(rest) : rest[i] \in Base36Alphabet

\* C5: every URL a successful uploadAvatar returns is the public URL followed
\* by ?t=<digits>&v=<token> with a token of at least one character, and the
\* same string is stored in uploadedUrl.
C5_ReturnedUrlForm ==
    [][\A s \in Slots :
          (calls[s].pc = "upload" /\ calls'[s].outcome = "resolved") =>
              /\ CacheBustedForm(calls'[s].value, getPublicUrl(calls[s].filePath))
              /\ uploadedUrl' = calls'[s].value]_vars

\* ---------------------------------------------------------------------- C6
\* C6: removeAvatar lists the user's folder with search term "avatar"; on a
\* successful list it removes exactly the paths userId/<name> of the listed
\* objects; on a list error it removes userId/avatar.jpg, .png and .webp and
\* resolves without raising.
C6_RemoveAvatarCalls ==
    \A s \in Slots :
        LET c == calls[s] IN
        RemoveCallOf(c) =>
            /\ c.log[1].ev = "call" /\ c.log[1].op = "list" /\ c.log[1].paths = <<userId>>
            /\ c.log[1].opts.search = <<"a", "v", "a", "t", "a", "r">>
            /\ (Len(c.log) >= 2 /\ c.log[2].res = "ok" /\ Len(c.log[2].paths) > 0) =>
                  /\ c.log[3].ev = "call" /\ c.log[3].op = "remove"
                  /\ Len(c.log[3].paths) = Len(c.log[2].paths)
                  /\ \A i \in 1..Len(c.log[2].paths) : c.log[3].paths[i] = userId \o <<"/">> \o c.log[2].paths[i]
            /\ (Len(c.log) >= 2 /\ c.log[2].res = "ok" /\ Len(c.log[2].paths) = 0) => ~HasIssued(c, "remove")
            /\ (Len(c.log) >= 2 /\ c.log[2].res = "error") =>
                  /\ c.log[3].ev = "call" /\ c.log[3].op = "remove"
                  /\ c.log[3].paths = <<ExpectedPath(userId, "image/jpeg"), ExpectedPath(userId, "image/png"),
                                        ExpectedPath(userId, "image/webp")>>
                  /\ Settles(c) => c.outcome = "resolved"

\* ---------------------------------------------------------------------- C7
\* C7: after every removeAvatar call that resolves, the list-failure fallback
\* included, uploadedUrl is null.
C7_ResolvedRemoveClearsUrl ==
    \A s \in Slots :
        (RemoveCallOf(calls[s]) /\ calls[s].outcome = "resolved") => uploadedUrl = Null
\* ---------------------------------------------------------------------- C8
\* C8: reset() called in any reachable hook state leaves exactly
\* {uploading: false, progress: 0, error: null, uploadedUrl: null}, which is
\* also the hook's initial state.  (A step that changes the hook state while
\* no call starts or settles is a reset.)
C8_ResetRestoresDefault ==
    /\ Hook = DefaultHook
    /\ [][(reset \/ (calls' = calls /\ started' = started /\ Hook' # Hook)) => Hook' = DefaultHook]_vars

C8_Witness ==
    /\ started = 1
    /\ UploadCallOf(calls[1]) /\ calls[1].outcome = "resolved"
    /\ Hook = DefaultHook

\* ---------------------------------------------------------------------- C9
\* C9: in every uploadAvatar call that passes validation the remove of the
\* target path is issued and has settled before the upload is issued, and the
\* upload is issued whether the remove succeeded, returned an error or threw.
C9_RemoveSettlesBeforeUpload ==
    \A s \in Slots :
        LET c == calls[s] IN
        (UploadCallOf(c) /\ ~(c.outcome = "rejected" /\ c.log = <<>>)) =>
            /\ c.log[1].ev = "call" /\ c.log[1].op = "remove"
            /\ c.log[1].paths = <<ExpectedPath(userId, c.file.type)>>
            /\ \A i \in 1..Len(c.log) :
                  (c.log[i].ev = "call" /\ c.log[i].op = "upload") =>
                      /\ i = 3
                      /\ c.log[2].ev = "settle" /\ c.log[2].op = "remove"
                      /\ c.log[3].paths = c.log[1].paths
            /\ (Len(c.log) >= 2 /\ c.log[2].res \in {"ok", "error", "throws"}) =>
                  (Len(c.log) >= 3 /\ c.log[3].ev = "call" /\ c.log[3].op = "upload")

C9_Witness ==
    \E s \in Slots :
        /\ UploadCallOf(calls[s]) /\ Len(calls[s].log) >= 3
        /\ calls[s].log[2].ev = "settle" /\ calls[s].log[2].op = "remove" /\ calls[s].log[2].res = "throws"
        /\ calls[s].log[3].ev = "call" /\ calls[s].log[3].op = "upload"

\* --------------------------------------------------------------------- C10
UploadErrorSettles(s) ==
    /\ calls[s].pc = "upload"
    /\ calls'[s].pc = "idle"
    /\ calls'[s].log[Len(calls'[s].log)].res = "error"

\* C10 (as stated): when the storage upload returns an error, uploadAvatar
\* rejects with an error containing the storage error's message, does not
\* request the public URL, leaves uploadedUrl null, stores the error in state
\* and ends with uploading = false.
C10_UploadErrorLeavesUrlNull ==
    [][\A s \in Slots :
          UploadErrorSettles(s) =>
              /\ calls'[s].outcome = "rejected"
              /\ MessageContains(calls'[s].value, calls'[s].log[Len(calls'[s].log)].msg)
              /\ ~HasIssued(calls'[s], "getPublicUrl")
              /\ uploadedUrl' = Null
              /\ error' = calls'[s].value
              /\ uploading' = FALSE]_vars

\* C10 (amended): as stated, except that the call does not change
\* uploadedUrl, which is null when no other call overlapped this one.
C10_UploadErrorKeepsUrl ==
    [][\A s \in Slots :
          UploadErrorSettles(s) =>
              /\ calls'[s].outcome = "rejected"
              /\ MessageContains(calls'[s].value, calls'[s].log[Len(calls'[s].log)].msg)
              /\ ~HasIssued(calls'[s], "getPublicUrl")
              /\ uploadedUrl' = uploadedUrl
              /\ ~calls'[s].overlapped => uploadedUrl' = Null
              /\ error' = calls'[s].value
              /\ uploading' = FALSE]_vars

C10_Witness ==
    \E s \in Slots :
        /\ UploadCallOf(calls[s]) /\ calls[s].outcome = "rejected" /\ Len(calls[s].log) > 0
        /\ calls[s].log[Len(calls[s].log)].op = "upload" /\ calls[s].log[Len(calls[s].log)].res = "error"
        /\ error = calls[s].value /\ MessageContains(error, "Bucket not found")
        /\ calls[s].overlapped /\ uploadedUrl # Null
\* --------------------------------------------------------------------- C11
DeleteErrorSettles(s) ==
    /\ calls[s].pc = "removeListed"
    /\ calls'[s].pc = "idle"
    /\ calls'[s].log[Len(calls'[s].log)].res = "error"

\* C11: when removeAvatar's list succeeds with at least one object and the
\* following remove returns an error, removeAvatar rejects with an error
\* containing the storage error's message, stores that error in state and
\* leaves uploadedUrl unchanged.
C11_DeleteErrorRejects ==
    [][\A s \in Slots :
          DeleteErrorSettles(s) =>
              /\ calls[s].log[2].res = "ok" /\ Len(calls[s].log[2].paths) > 0
              /\ calls'[s].outcome = "rejected"
              /\ MessageContains(calls'[s].value, calls'[s].log[Len(calls'[s].log)].msg)
              /\ error' = calls'[s].value
              /\ uploadedUrl' = uploadedUrl]_vars

C11_Witness ==
    \E s \in Slots :
        /\ RemoveCallOf(calls[s]) /\ calls[s].outcome = "rejected" /\ Len(calls[s].log) = 4
        /\ calls[s].log[2].res = "ok" /\ Len(calls[s].log[2].paths) > 0
        /\ calls[s].log[4].op = "remove" /\ calls[s].log[4].res = "error"
        /\ error = calls[s].value /\ MessageContains(error, "Bucket not found")
        /\ uploadedUrl # Null

\* --------------------------------------------------------------------- C12
\* the step in which the call in slot s settles: after an await, or at once
\* when validation throws
CallSettles(s) ==
    /\ ~InFlight(calls'[s]) /\ calls'[s].op # "none"
    /\ InFlight(calls[s]) \/ started' # started

\* C12: for every uploadAvatar or removeAvatar call made with no other call
\* in flight, the error in hook state after a rejected call is the error
\* thrown to the caller, and after a resolved call it is null.
C12_ErrorStateMatchesOutcome ==
    [][\A s \in Slots :
          CallSettles(s) =>
              /\ calls'[s].outcome \in {"rejected", "resolved"}
              /\ calls'[s].outcome = "rejected" => (error' = calls'[s].value /\ error' # Null)
              /\ calls'[s].outcome = "resolved" => error' = Null]_vars

C12_Witness ==
    \E s \in Slots :
        /\ UploadCallOf(calls[s]) /\ calls[s].outcome = "rejected" /\ Len(calls[s].log) > 0
        /\ started = 2 /\ error = calls[s].value /\ returned # <<>>

\* --------------------------------------------------------------------- C13
\* C13: for an ArrayBuffer input uploadAvatar does no size or type
\* validation: for every byte length and attached type (or none) it goes on
\* to the delete-then-upload sequence, with the attached type as contentType,
\* image/jpeg when none is attached.
C13_ArrayBufferNotValidated ==
    \A s \in Slots :
        LET c == calls[s] IN
        (UploadCallOf(c) /\ c.file.kind = "ArrayBuffer") =>
            /\ Len(c.log) >= 1
            /\ c.log[1].ev = "call" /\ c.log[1].op = "remove"
            /\ Len(c.log) >= 2 => (c.log[3].ev = "call" /\ c.log[3].op = "upload"
                                   /\ c.log[3].opts.contentType = (IF c.file.type = "" THEN "image/jpeg" ELSE c.file.type))
            /\ c.outcome = "rejected" => (c.value # SizeMessage /\ c.value # TypeMessage)

C13_Witness ==
    \E s \in Slots :
        /\ calls[s].file = [kind |-> "ArrayBuffer", type |-> "application/pdf", size |-> MAX_FILE_SIZE + 1]
        /\ calls[s].outcome = "resolved"
        /\ calls[s].contentType = "application/pdf"
\* --------------------------------------------------------------------- C17
UserObjects == {p \in objects : StartsWith(p, userId \o <<"/">>)}

\* C17: after any sequence of successful uploadAvatar calls for one user,
\* with inputs of any mix of the three allowed types, storage holds at most
\* one avatar object under the user's prefix (a prior avatar with another
\* extension does not survive a later upload).
C17_AtMostOneAvatarObject ==
    (\E s \in Slots : UploadCallOf(calls[s]) /\ calls[s].outcome = "resolved"
                      /\ calls[s].file.type \in ALLOWED_MIME_TYPES)
        => Cardinality(UserObjects) <= 1

\* --------------------------------------------------------------------- C18
UploadInFlight == \E s \in Slots : UploadCallOf(calls[s]) /\ InFlight(calls[s])

\* C18 (as stated): uploading is true in every state in which at least one
\* uploadAvatar call has started and not yet settled, also when a second call
\* is started before the first resolves; it is false only when no upload is
\* in flight.
C18_UploadingIffInFlight == uploading <=> UploadInFlight

UploadStarts == \E s \in Slots : UploadCallOf(calls'[s]) /\ InFlight(calls'[s]) /\ ~InFlight(calls[s])
UploadSettles == \E s \in Slots : UploadCallOf(calls[s]) /\ InFlight(calls[s]) /\ ~InFlight(calls'[s])

\* C18 (amended): uploading is true only while an uploadAvatar call is in
\* flight; it becomes true when a call that passes validation starts and
\* false when any uploadAvatar call settles or reset is called, also while
\* another uploadAvatar call is still in flight.
C18_UploadingOnlyWhileInFlight ==
    /\ [](uploading => UploadInFlight)
    /\ [][/\ UploadStarts => uploading'
          /\ UploadSettles => ~uploading'
          /\ (uploading /\ ~uploading') => (UploadSettles \/ reset \/ started' # started)]_vars

C18_Witness ==
    /\ ~uploading
    /\ \E s \in Slots : UploadCallOf(calls[s]) /\ InFlight(calls[s]) /\ calls[s].overlapped
    /\ \E s \in Slots : UploadCallOf(calls[s]) /\ calls[s].outcome = "resolved"
    /\ uploadedUrl # Null

\* --------------------------------------------------------------------- C19
\* C19: after an uploadAvatar call that no other call overlaps settles,
\* uploading is false, progress is 0 and exactly one of error and uploadedUrl
\* is non-null (uploadedUrl after success, error after failure); progress is
\* never anything but 0 or 100.
C19_StateAfterUpload ==
    /\ [](progress \in {0, 100})
    /\ [][\A s \in Slots :
            (CallSettles(s) /\ UploadCallOf(calls'[s])) =>
                /\ uploading' = FALSE
                /\ progress' = 0
                /\ calls'[s].outcome = "resolved" => (uploadedUrl' # Null /\ error' = Null)
                /\ calls'[s].outcome = "rejected" => (uploadedUrl' = Null /\ error' # Null)]_vars

C19_Witness ==
    /\ started = 2
    /\ UploadCallOf(calls[1]) /\ calls[1].outcome = "resolved"
    /\ ~uploading /\ progress = 0 /\ error = Null /\ uploadedUrl = calls[1].value

\* --------------------------------------------------------------------- C14
\* C14: from the press until the promise onPress returned settles the button
\* is disabled and a further press does not call onPress; the step in which
\* the promise resolves or rejects enables the button again; a rejection is
\* logged with console.warn and the promise handlePress returned is fulfilled,
\* never rejected.
C14_DisabledUntilSettled ==
    /\ [](button.onPress = "pending" => (button.disabled /\ button.isLoading))
    /\ [](button.handlePress # "rejected")
    /\ [][/\ (button.disabled /\ button'.presses # button.presses)
                => button'.onPressCalls = button.onPressCalls
          /\ (button.onPress = "pending" /\ button'.onPress # "pending")
                => /\ ~button'.disabled /\ ~button'.isLoading
                   /\ button'.handlePress = "fulfilled"
                   /\ button'.onPress \in {"resolved", "rejected"}
                   /\ button'.onPress = "resolved" => button'.warnings = button.warnings
                   /\ button'.onPress = "rejected" =>
                         \E err \in OAuthErrors :
                            button'.warnings = Append(button.warnings, <<button.provider, err>>)]_vars

\* a press was dropped while an onPress call was pending, and a later call's
\* promise rejected: the button is enabled and the rejection is logged
C14_Witness ==
    /\ button.onPress = "rejected" /\ ~button.disabled /\ ~button.isLoading
    /\ button.presses > button.onPressCalls /\ button.onPressCalls >= 2
    /\ button.warnings # <<>> /\ button.handlePress = "fulfilled"

\* --------------------------------------------------------------------- C15
NeedsRedirect == ~screen.auth.loading /\ screen.auth.user = NoUser

\* C15: ProfileScreen shows the protected content only while auth.loading is
\* false and auth.user is non-null; a timer is pending only while nobody is
\* signed in and loading is over; navigation.replace is called only by that
\* timer, with 'Login'; a user appearing while the timer is pending clears it
\* without a call; and while loading stays false and the user stays null the
\* pending timer leads to the call.
C15_RouteProtection ==
    /\ [](screen.view = "ProfileScreenContent" => (~screen.auth.loading /\ screen.auth.user # NoUser))
    /\ [](screen.timer # NoTimer => NeedsRedirect)
    /\ [](NeedsRedirect => (screen.timer # NoTimer \/ screen.replaced # <<>>))
    /\ [][/\ screen'.replaced # screen.replaced
                => /\ NeedsRedirect /\ screen.timer = 0
                   /\ screen'.auth = screen.auth
                   /\ screen'.replaced = Append(screen.replaced, "Login")
          /\ (screen.timer # NoTimer /\ screen'.auth.user # NoUser)
                => (screen'.timer = NoTimer /\ screen'.replaced = screen.replaced)]_vars
    /\ \A n \in 0..(MaxAuthChanges + 1) :
          (NeedsRedirect /\ screen.timer # NoTimer /\ Len(screen.replaced) = n)
             ~> (~NeedsRedirect \/ Len(screen.replaced) > n)

\* nobody signed in after two changes of the auth context: the timer has
\* fired and replace('Login') was called
C15_Witness ==
    /\ NeedsRedirect /\ screen.view = "Redirecting..."
    /\ screen.changes >= 2
    /\ screen.timer = NoTimer /\ screen.replaced = <<"Login">>

\* --------------------------------------------------------------------- C16
\* /\.[a-z0-9]+$/i on the path as it is
EndsInExtension(path) ==
    \E k \in 1..(Len(path) - 1) :
       path[k] = "." /\ \A i \in (k + 1)..Len(path) : path[i] \in ExtensionChars

DropOneSlash(path) ==
    IF path # <<>> /\ path[Len(path)] = "/" THEN SubSeq(path, 1, Len(path) - 1) ELSE path

\* C16 (as stated): a URI /pr-<digits>[/rest] becomes /pr-<N>/index.html when
\* rest is empty, "/" or does not end in a file extension, and is returned as
\* it is when rest ends in a file extension; any other URI is returned as it
\* is; the result stays under /pr-<N>/.
C16_RewritesAsStated ==
    router.returned =>
       LET match == prPathPattern(router.event)
           rest == IF match.restOfPath = <<>> THEN <<>> ELSE Tail(match.restOfPath)
           under == <<"/">> \o match.prPrefix \o <<"/">>
       IN IF match.matched
          THEN /\ StartsWith(router.request, under)
               /\ IF EndsInExtension(rest) THEN router.request = router.event
                  ELSE router.request = under \o IndexHtml
          ELSE router.request = router.event

\* C16 (amended): with rest' = rest without its leading slashes, a URI
\* /pr-<digits>[/rest] becomes /pr-<N>/index.html when rest', one trailing
\* slash dropped, does not end in a file extension, and /pr-<N>/rest'
\* otherwise; any other URI is returned as it is; the result stays under
\* /pr-<N>/.
C16_RewritesNormalised ==
    router.returned =>
       LET match == prPathPattern(router.event)
           rest == StripLeadingSlashes(match.restOfPath)
           under == <<"/">> \o match.prPrefix \o <<"/">>
       IN IF match.matched
          THEN /\ StartsWith(router.request, under)
               /\ IF EndsInExtension(DropOneSlash(rest)) THEN router.request = under \o rest
                  ELSE router.request = under \o IndexHtml
          ELSE router.request = router.event

\* /pr-7//.J is rewritten to /pr-7/.J
C16_Witness ==
    /\ router.returned
    /\ router.event = <<"/", "p", "r", "-", "7", "/", "/", ".", "J">>
    /\ router.request = <<"/", "p", "r", "-", "7", "/", ".", "J">>

\* --------------------------------------------------------------------- C20
ConfigurationPending == \E i \in 1..Len(google.jobs) : google.jobs[i].stage \in {"timer", "import"}
NoConfigurationFailed == \A i \in 1..Len(google.jobs) : google.jobs[i].stage # "failed"

\* C20: a configureGoogleSignIn call with a webClientId made while an earlier
\* configuration is pending returns the promise of that configuration and
\* starts no further timer or import; GoogleSignin.configure is called at
\* most once as long as no configuration has failed.
C20_IdempotentInit ==
    /\ [](NoConfigurationFailed => Len(google.configureCalls) <= 1)
    /\ [][(/\ google'.calls = google.calls + 1
           /\ google'.lastOptions.webClientId # ""
           /\ ConfigurationPending)
             => /\ google'.lastReturned = google.configurePromise
                /\ google'.jobs = google.jobs
                /\ google'.promises = google.promises]_vars

GoogleCall == useAuth.call.op = "signInWithGoogle"
AuthCallSettles == useAuth.call.pc # "idle" /\ useAuth'.call.pc = "idle"
PassesConfigure ==
    \/ useAuth.call.pc = "configurePromise" /\ useAuth'.call.pc = "getGoogleSignIn"
    \/ useAuth'.calls # useAuth.calls /\ useAuth'.call.op = "signInWithGoogle" /\ useAuth'.call.pc = "getGoogleSignIn"
SdkSignInCalls(c) == {i \in 1..Len(c.sdk) : c.sdk[i].op \in {"hasPlayServices", "signIn"}}

SignOutCall == useAuth.call.op = "signOut"

\* C23: signOut never rejects; when the sign-out API returned an error or
\* threw, the call resolves with session = null, user = null and loading =
\* false whatever the storage does, and when getAllKeys and every removeItem
\* succeeded the storage has lost exactly its keys that start with 'sb-' or
\* contain 'supabase.auth.token'.
C23_SignOutNeverRejects ==
    [][(SignOutCall /\ AuthCallSettles) =>
          /\ useAuth'.call.outcome = "resolved"
          /\ ~useAuth'.loading
          /\ useAuth'.call.api \in {"error", "throws"} =>
                (useAuth'.session = NoSession /\ useAuth'.user = NoUser)
          /\ (useAuth.call.pc = "removeItem" /\ useAuth'.warnings = useAuth.warnings) =>
                useAuth'.storage = {key \in useAuth.storage :
                                      ~(key[1] = "sb-" \/ \E i \in 1..Len(key) : key[i] = "supabase.auth.token")}
          /\ useAuth'.storage \subseteq useAuth.storage]_vars

\* the API threw, both Supabase keys were removed and the third key was kept
C23_Witness ==
    /\ SignOutCall /\ useAuth.call.outcome = "resolved" /\ useAuth.call.api = "throws"
    /\ Cardinality(useAuth.call.removing) = 2
    /\ useAuth.storage = {<<"my-", SbPrefix, "theme">>}
    /\ useAuth.warnings = 1
    /\ useAuth.session = NoSession /\ useAuth.user = NoUser /\ ~useAuth.loading

\* --------------------------------------------------------------------- C24
PasswordCall == useAuth.call.op \in {"signIn", "signUp"}

\* C24: when signIn or signUp settles, the API having resolved without an
\* error, resolved with an error or rejected, loading is false; when the API
\* resolved with an error the error state holds that message and the call is
\* rejected with it.
C24_LoadingFalseAfterSignIn ==
    [][(PasswordCall /\ AuthCallSettles) =>
          /\ ~useAuth'.loading
          /\ useAuth'.call.api = "error" =>
                /\ useAuth'.call.outcome = "rejected"
                /\ useAuth'.call.value \in {<<msg>> : msg \in AuthErrorMessages}
                /\ useAuth'.error = useAuth'.call.value]_vars

\* --------------------------------------------------------------------- C25
FetchSettles(i) ==
    /\ i \in 1..Len(useProfile.fetches)
    /\ useProfile.fetches[i].pc = "select" /\ useProfile'.fetches[i].pc = "idle"

\* C25: a fetchProfile call whose select found no row (PGRST116) resolves
\* with profile = null and error = null; one whose select returned another
\* error sets the error state and rejects with that message; in every
\* outcome loading is false when the call settles.
C25_NoRowsIsSuccess ==
    [][\A i \in 1..MaxFetches : FetchSettles(i) =>
          /\ ~useProfile'.loading
          /\ useProfile'.fetches[i].api = "PGRST116" =>
                /\ useProfile'.fetches[i].outcome = "resolved"
                /\ useProfile'.profile = NoProfile /\ useProfile'.error = Null
          /\ useProfile'.fetches[i].api = "error" =>
                /\ useProfile'.fetches[i].outcome = "rejected"
                /\ useProfile'.fetches[i].value \in {<<msg>> : msg \in ProfileErrorMessages}
                /\ useProfile'.error = useProfile'.fetches[i].value]_vars

\* one fetch found no row and resolved, a later one was rejected with the
\* backend error
C25_Witness ==
    /\ Len(useProfile.fetches) >= 2
    /\ useProfile.fetches[1].api = "PGRST116" /\ useProfile.fetches[1].outcome = "resolved"
    /\ useProfile.fetches[2].api = "error" /\ useProfile.fetches[2].outcome = "rejected"
    /\ useProfile.error = useProfile.fetches[2].value
    /\ useProfile.profile = NoProfile /\ ~useProfile.loading

\* --------------------------------------------------------------------- C26
\* C26: the profile in state is null or the profile of the current user, also
\* after the answer to a fetch made for an earlier user arrives.
C26_ProfileOfCurrentUser ==
    useProfile.profile = NoProfile
       \/ (useProfile.user # NoUser /\ useProfile.profile.user_id = useProfile.user)

\* --------------------------------------------------------------------- C27
LastInvocation == supabaseRun.invocations[Len(supabaseRun.invocations)]

\* C27: a run of the command whose output contains 'failed to connect',
\* 'cannot find project ref' or 'Error:' counts as failed in supabase_run
\* even when the command's exit code is zero: its status is not 0, so it is
\* retried or reported as a failure and not returned as a success.
C27_ErrorOutputIsFailure ==
    (/\ Len(supabaseRun.invocations) > 0
     /\ LastInvocation.exit = 0
     /\ grepErrors(LastInvocation.output)) => supabaseRun.status # 0

\* --------------------------------------------------------------------- C28
Max(a, b) == IF a >= b THEN a ELSE b

RECURSIVE Doubled(_, _)
\* the delay after n doublings
Doubled(delay, n) == IF n = 0 THEN delay ELSE Doubled(delay * 2, n - 1)

\* the sleeps between the invocations made so far are 5 s, 10 s, 20 s, ...
SleepsDouble ==
    /\ Len(supabaseRun.sleeps) =
          Len(supabaseRun.invocations) - (IF supabaseRun.pc = "returned" THEN 1 ELSE 0)
    /\ \A i \in 1..Len(supabaseRun.sleeps) : supabaseRun.sleeps[i] = Doubled(5, i - 1)

\* what a call that ran the command at most limit times has done and returned
RunsAtMost(limit) ==
    LET n == Len(supabaseRun.invocations)
    IN /\ n <= limit
       /\ \A i \in 1..(n - 1) : supabaseRun.invocations[i].exit # 0
       /\ supabaseRun.pc = "loop" =>
             /\ n < limit
             /\ \A i \in 1..n : supabaseRun.invocations[i].exit # 0
             /\ SleepsDouble
       /\ (supabaseRun.pc = "returned" /\ ~supabaseRun.DRY_RUN) =>
             /\ n >= 1
             /\ SleepsDouble
             /\ LastInvocation.exit = 0 => supabaseRun.returns = 0
             /\ LastInvocation.exit # 0 =>
                   /\ n = limit
                   /\ supabaseRun.returns =
                         IF supabaseRun.allow_fail # 0 THEN 0 ELSE LastInvocation.exit
       /\ (supabaseRun.pc = "returned" /\ supabaseRun.DRY_RUN) =>
             (n = 0 /\ supabaseRun.returns = 0)

RunReturns == (supabaseRun.pc = "loop") ~> (supabaseRun.pc = "returned")

\* C28 as stated: supabase_run runs the command at most SUPABASE_MAX_RETRIES
\* (default 3) times, sleeping 5 s and then twice the last delay between
\* attempts, returns 0 at the first attempt that succeeds, and after the
\* last failed attempt returns 0 with --allow-fail and the command's
\* non-zero status without it; every call returns.
C28_AtMostMaxRetries ==
    [](supabaseRun.pc # "idle" => RunsAtMost(ParamDefault(supabaseRun.SUPABASE_MAX_RETRIES, 3)))
       /\ RunReturns

\* C28, amended: the same with at most max(1, SUPABASE_MAX_RETRIES)
\* invocations, since the command runs once before the attempt count is
\* compared with the limit.
C28_AtMostOneOrMaxRetries ==
    [](supabaseRun.pc # "idle" =>
          RunsAtMost(Max(1, ParamDefault(supabaseRun.SUPABASE_MAX_RETRIES, 3))))
       /\ RunReturns

\* a call without --allow-fail and with SUPABASE_MAX_RETRIES unset ran the
\* command three times, slept 5 s and 10 s, and returned the last exit code
C28_Witness ==
    /\ supabaseRun.pc = "returned" /\ supabaseRun.allow_fail = 0
    /\ supabaseRun.SUPABASE_MAX_RETRIES = <<>>
    /\ Len(supabaseRun.invocations) = 3
    /\ supabaseRun.sleeps = <<5, 10>>
    /\ supabaseRun.returns = 2 /\ LastInvocation.exit = 2

\* --------------------------------------------------------------------- C29
Attempted(command) ==
    \E i \in 1..Len(script.commands) : script.commands[i].command = command
Failed(command) ==
    \E i \in 1..Len(script.commands) :
        script.commands[i].command = command /\ script.commands[i].failed

\* C29: the script exits with status 0 whatever the database operations
\* did; the SUPABASE_SUCCESS it writes is true only if link, reset, seed and
\* type generation all succeeded or the reset was skipped as unchanged, and
\* false otherwise; type generation is attempted only after link, reset and
\* seed succeeded; unlink is attempted after every attempt.
C29_SuccessOnlyIfAllSucceeded ==
    /\ (script.pc = "exited" /\ (Len(script.commands) > 0 \/ Len(script.outputs) > 0)) =>
          script.exit = <<0>>
    /\ Len(script.outputs) > 0 =>
          (script.outputs[1] =>
              \/ ~script.SUPABASE_HAS_CHANGES
              \/ ~(Failed("link") \/ Failed("db reset") \/ Failed("db seed") \/ Failed("gen types")))
    /\ Attempted("gen types") => ~(Failed("link") \/ Failed("db reset") \/ Failed("db seed"))
    /\ (script.pc \in {"write_output", "exited"} /\ Len(script.commands) > 0) =>
          Attempted("unlink")

\* --------------------------------------------------------------------- C30
\* C30: decoding the standard padded base64 text of a file gives back the
\* file's bytes, the same number of them and each in 0..255, whether the
\* text ends without padding, with "=" or with "==".
C30_DecoderInvertsBase64 ==
    /\ picker.pc = "decoded" =>
          /\ picker.uint8Array = picker.file
          /\ \A i \in 1..Len(picker.uint8Array) : picker.uint8Array[i] \in 0..255
    /\ Uint8ArrayOf(decodeFrom(cleanBase64(readAsBase64(<<>>)), 0)) = <<>>

\* a file of four bytes was read as a full group and a group ending in "=="
\* and decoded to its bytes
C30_Witness ==
    /\ picker.pc = "decoded"
    /\ picker.file = <<255, 240, 85, 170>>
    /\ picker.base64 = <<"/", "/", "B", "V", "q", "g", "=", "=">>
    /\ picker.uint8Array = picker.file
====
